---- MODULE Spec2Model ----
(***************************************************************************)
(* Record aggregation engine of the quality dashboard:                     *)
(*   DataTransformer (src/src/DataContextProvider.js, lines 76-1171) and   *)
(*   the statistical helpers of src/src/utility-functions.js.              *)
(*                                                                         *)
(* Conventions of the model                                                *)
(*   - a JavaScript object is a function from field names to values; a     *)
(*     field that is absent is not in the DOMAIN (the empty object is <<>>)*)
(*   - a JavaScript number that is stored in the output document is an     *)
(*     exact rational [n, d] in lowest terms; NaN is [n |-> 0, d |-> 0]    *)
(*   - a string that the code splits or trims is a sequence of characters  *)
(*   - a date string is [k |-> "date", y, m, d] (parsed as UTC, read as    *)
(*     UTC), the literal 'N/A' is [k |-> "NA"], any other non-empty text   *)
(*     that Date cannot parse is [k |-> "bad"]                             *)
(***************************************************************************)
EXTENDS Integers, Sequences, FiniteSets, TLC

VARIABLES
    rawRecords,       \* DataTransformer.rawRecords
    transformedData,  \* DataTransformer.transformedData
    op,               \* the last method that was called on the object
    completion,       \* how the last call ended: "return" or "throw"
    threw,            \* the sections whose catch block ran during the last call
    docBefore,        \* transformedData as it was when the stepwise run began
    runs,             \* how many runs have begun
    pending,          \* section transformers still to be called in a stepwise run
    fnArgs,           \* the arguments of the function that is applied on its own
    fnResult,         \* its result
    sourceFiles,      \* the three workbooks that ExcelProcessor reads
    outputFile,       \* the file at ExcelProcessor's config.outputPath
    dataState,        \* the dataState of the component AppWithContext
    loads             \* the calls of its loadData, in the order they began

vars == <<rawRecords, transformedData, op, completion, threw, docBefore, runs, pending,
          fnArgs, fnResult, sourceFiles, outputFile, dataState, loads>>

\* the files of ExcelProcessor, which no method of DataTransformer touches
NoFiles == [kind |-> "none"]

\* the state of AppWithContext while the component is not rendered
NotRendered == [rendered |-> FALSE]

-----------------------------------------------------------------------------
(* Numbers *)

Abs(x) == IF x < 0 THEN -x ELSE x

RECURSIVE Gcd(_, _)
Gcd(a, b) == IF b = 0 THEN a ELSE Gcd(b, a % b)

NaN == [n |-> 0, d |-> 0]

IsNaN(q) == q.d = 0 /\ q.n = 0

\* Infinity and -Infinity are the numbers 1/0 and -1/0
Infinity == [n |-> 1, d |-> 0]

NegInfinity == [n |-> -1, d |-> 0]

IsFinite(q) == q.d # 0

\* the rational n/d in lowest terms with a positive denominator; 0/0 is NaN
\* and x/0 is Infinity with the sign of x
Rat(n, d) ==
    IF d = 0 THEN [n |-> IF n > 0 THEN 1 ELSE IF n < 0 THEN -1 ELSE 0, d |-> 0]
    ELSE LET g == Gcd(Abs(n), Abs(d))
             s == IF d < 0 THEN -1 ELSE 1
         IN  [n |-> s * (n \div g), d |-> s * (d \div g)]

Num(k) == [n |-> k, d |-> 1]

\* Infinity + -Infinity is NaN
RAdd(p, q) ==
    IF IsNaN(p) \/ IsNaN(q) THEN NaN
    ELSE IF ~IsFinite(p) /\ ~IsFinite(q) THEN (IF p = q THEN p ELSE NaN)
    ELSE Rat(p.n * q.d + q.n * p.d, p.d * q.d)

RNeg(q) == [n |-> -q.n, d |-> q.d]

RSub(p, q) == RAdd(p, RNeg(q))

\* 0 * Infinity is NaN
RMul(p, q) == IF IsNaN(p) \/ IsNaN(q) THEN NaN ELSE Rat(p.n * q.n, p.d * q.d)

\* x / Infinity is 0, Infinity / Infinity is NaN, x / 0 is Infinity with the sign of x
RDiv(p, q) ==
    IF IsNaN(p) \/ IsNaN(q) THEN NaN
    ELSE IF ~IsFinite(q) THEN (IF IsFinite(p) THEN Num(0) ELSE NaN)
    ELSE IF q.n < 0 THEN Rat(-(p.n * q.d), p.d * (-q.n))
    ELSE Rat(p.n * q.d, p.d * q.n)

\* comparisons are false as soon as one side is NaN
RLt(p, q) ==
    /\ ~IsNaN(p) /\ ~IsNaN(q)
    /\ IF ~IsFinite(p) /\ ~IsFinite(q) THEN p.n < q.n ELSE p.n * q.d < q.n * p.d
RLe(p, q) ==
    /\ ~IsNaN(p) /\ ~IsNaN(q)
    /\ IF ~IsFinite(p) /\ ~IsFinite(q) THEN p.n <= q.n ELSE p.n * q.d <= q.n * p.d
RGt(p, q) == RLt(q, p)
RGe(p, q) == RLe(q, p)

\* a number is truthy unless it is 0 or NaN
RTruthy(q) == ~IsNaN(q) /\ q.n # 0

RECURSIVE RSum(_)
RSum(s) == IF s = <<>> THEN Num(0) ELSE RAdd(RSum(SubSeq(s, 1, Len(s) - 1)), s[Len(s)])

-----------------------------------------------------------------------------
(* Sequences *)

Map(f(_), s) == [i \in 1..Len(s) |-> f(s[i])]

RECURSIVE Concat(_)
Concat(ss) == IF ss = <<>> THEN <<>> ELSE Head(ss) \o Concat(Tail(ss))

\* Array.prototype.slice(-k): -0 is 0, so slice(-0) is slice(0), the whole
\* array; a negative k makes the start index positive and drops the first -k
LastK(s, k) ==
    IF k = 0 THEN s
    ELSE IF k < 0 THEN SubSeq(s, 1 - k, Len(s))
    ELSE IF Len(s) <= k THEN s
    ELSE SubSeq(s, Len(s) - k + 1, Len(s))

\* Array.prototype.slice(0, k)
FirstK(s, k) == IF Len(s) <= k THEN s ELSE SubSeq(s, 1, k)

\* Array.prototype.sort with comparator cmp: the sort is stable, so it is the
\* insertion sort that moves an element left only past elements it precedes
RECURSIVE InsertSorted(_, _, _)
InsertSorted(Before(_, _), s, x) ==
    IF s = <<>> THEN <<x>>
    ELSE IF Before(x, s[Len(s)])
         THEN InsertSorted(Before, SubSeq(s, 1, Len(s) - 1), x) \o <<s[Len(s)]>>
         ELSE s \o <<x>>

RECURSIVE StableSort(_, _)
StableSort(Before(_, _), s) ==
    IF s = <<>> THEN <<>>
    ELSE InsertSorted(Before, StableSort(Before, SubSeq(s, 1, Len(s) - 1)), s[Len(s)])

-----------------------------------------------------------------------------
(* Records *)

Null == [null |-> TRUE]

IsNull(r) == "null" \in DOMAIN r

Has(r, f) == f \in DOMAIN r

\* r.hasErrors is truthy
HasErrors(r) == Has(r, "hasErrors") /\ r.hasErrors

\* a numeric input field (an integer number of days) is present and non-zero
NumTruthy(r, f) == Has(r, f) /\ r[f] # 0

\* a date field holds a non-empty string
DateTruthy(r, f) == Has(r, f)

\* new Date(s).getTime() is not NaN
DateValid(v) == v.k = "date"

-----------------------------------------------------------------------------
(* calculateRFTRate *)

\* a variant that counts the records with the flag instead of those without
calculateRFTRate_counts_failures(records) ==
    IF records = <<>> THEN Num(0)
    ELSE LET passCount == Len(SelectSeq(records, LAMBDA r : HasErrors(r)))
         IN  RMul(Rat(passCount, Len(records)), Num(100))

\* `records' is <<>> both for an empty array and for an absent argument
calculateRFTRate(records) ==
    IF records = <<>> THEN Num(0)
    ELSE LET passCount == Len(SelectSeq(records, LAMBDA r : ~HasErrors(r)))
         IN  RMul(Rat(passCount, Len(records)), Num(100))

-----------------------------------------------------------------------------
(* Strings *)

\* String.prototype.split(','): the pieces between the commas, empty ones kept
RECURSIVE Split(_)
Split(s) ==
    IF \A i \in 1..Len(s) : s[i] # ","
    THEN <<s>>
    ELSE LET i == CHOOSE j \in 1..Len(s) :
                      s[j] = "," /\ \A h \in 1..(j - 1) : s[h] # ","
         IN  <<SubSeq(s, 1, i - 1)>> \o Split(SubSeq(s, i + 1, Len(s)))

\* String.prototype.trim()
RECURSIVE Trim(_)
Trim(s) ==
    IF s = <<>> THEN s
    ELSE IF Head(s) = " " THEN Trim(Tail(s))
    ELSE IF s[Len(s)] = " " THEN Trim(SubSeq(s, 1, Len(s) - 1))
    ELSE s

\* names that every object inherits from Object.prototype; the eleven letters
\* of 'constructor' are one character of the model
ProtoNames == {<<"constructor">>}

-----------------------------------------------------------------------------
(* analyzeErrorTypes *)

\* r.errorTypes is truthy: a non-empty string, or any array
ErrorTypesTruthy(r) ==
    /\ Has(r, "errorTypes")
    /\ (r.errorTypes.kind = "str" => r.errorTypes.text # <<>>)

\* the error types of one record as the forEach visits them
ErrorTypeList(r) ==
    IF r.errorTypes.kind = "str"
    THEN Map(Trim, Split(r.errorTypes.text))
    ELSE r.errorTypes.items

\* the body of the forEach over one record's types: errorCounts is the
\* sequence of the object's own properties in insertion order
CountType(errorCounts, type) ==
    IF type = <<>> THEN errorCounts
    ELSE IF \E i \in 1..Len(errorCounts) : errorCounts[i].name = type
    THEN [i \in 1..Len(errorCounts) |->
            IF errorCounts[i].name = type
            THEN [name |-> type,
                  count |-> IF RTruthy(errorCounts[i].count)
                            THEN RAdd(errorCounts[i].count, Num(1))
                            ELSE Num(1)]
            ELSE errorCounts[i]]
    ELSE IF type \in ProtoNames
    \* the inherited member is truthy, so the count is not initialised and
    \* the increment of a function gives NaN
    THEN Append(errorCounts, [name |-> type, count |-> NaN])
    ELSE Append(errorCounts, [name |-> type, count |-> Num(1)])

RECURSIVE CountTypes(_, _)
CountTypes(errorCounts, types) ==
    IF types = <<>> THEN errorCounts
    ELSE CountTypes(CountType(errorCounts, Head(types)), Tail(types))

RECURSIVE CountRecords(_, _)
CountRecords(errorCounts, records) ==
    IF records = <<>> THEN errorCounts
    ELSE CountRecords(CountTypes(errorCounts, ErrorTypeList(Head(records))),
                      Tail(records))

\* (a, b) => b.count - a.count is negative
MoreFrequent(a, b) == RGt(a.count, b.count)

analyzeErrorTypes(records, topCount) ==
    IF records = <<>> THEN <<>>
    ELSE LET recordsWithErrors ==
                 SelectSeq(records, LAMBDA r : HasErrors(r) /\ ErrorTypesTruthy(r))
             errorArray == StableSort(MoreFrequent, CountRecords(<<>>, recordsWithErrors))
             totalErrors == RSum(Map(LAMBDA e : e.count, errorArray))
             result == Map(LAMBDA e : [name |-> e.name, count |-> e.count,
                                       percentage |-> RMul(RDiv(e.count, totalErrors), Num(100))],
                           errorArray)
         IN  FirstK(result, topCount)

-----------------------------------------------------------------------------
(* groupRecordsByMonth *)

\* `${date.getFullYear()}-${String(date.getMonth() + 1).padStart(2, '0')}`:
\* the key 'YYYY-MM' is the number YYYYMM, whose order is the order of the keys
MonthKey(v) == v.y * 100 + v.m

\* Object.keys(...).sort() of a set of month keys
RECURSIVE SortedKeys(_)
SortedKeys(S) ==
    IF S = {} THEN <<>>
    ELSE LET k == CHOOSE x \in S : \A y \in S : x <= y
         IN  <<k>> \o SortedKeys(S \ {k})

\* the result object as the sequence of its entries, in insertion order
groupRecordsByMonth(records, dateField, monthCount) ==
    LET validRecords ==
            SelectSeq(records, LAMBDA r : DateTruthy(r, dateField) /\ r[dateField].k # "NA")
        grouped == SelectSeq(validRecords, LAMBDA r : DateValid(r[dateField]))
        keys == {MonthKey(grouped[i][dateField]) : i \in 1..Len(grouped)}
        sortedMonths == LastK(SortedKeys(keys), monthCount)
    IN  Map(LAMBDA k : [month |-> k,
                        records |-> SelectSeq(grouped,
                                       LAMBDA r : MonthKey(r[dateField]) = k)],
            sortedMonths)

-----------------------------------------------------------------------------
(* Dates and durations *)

IsLeap(y) == (y % 4 = 0 /\ y % 100 # 0) \/ y % 400 = 0

DaysInMonth(y, m) ==
    IF m \in {4, 6, 9, 11} THEN 30
    ELSE IF m = 2 THEN (IF IsLeap(y) THEN 29 ELSE 28)
    ELSE 31

RECURSIVE DaysBeforeMonth(_, _)
DaysBeforeMonth(y, m) ==
    IF m = 1 THEN 0 ELSE DaysBeforeMonth(y, m - 1) + DaysInMonth(y, m - 1)

\* Date.getTime() of a date-only string, counted in whole days
DayNumber(v) ==
    365 * (v.y - 1) + ((v.y - 1) \div 4) - ((v.y - 1) \div 100) + ((v.y - 1) \div 400)
        + DaysBeforeMonth(v.y, v.m) + v.d

\* (finish - start) / (1000 * 60 * 60 * 24)
DaysBetween(start, finish) == Num(DayNumber(finish) - DayNumber(start))

\* r.cycleTime || r.total_cycle_time_days, kept by filter(val => val && !isNaN(val))
HasCycleTime(r) == NumTruthy(r, "cycleTime") \/ NumTruthy(r, "total_cycle_time_days")

CycleTimeOf(r) ==
    IF NumTruthy(r, "cycleTime") THEN Num(r.cycleTime) ELSE Num(r.total_cycle_time_days)

\* values.length > 0 ? values.reduce((sum, val) => sum + val, 0) / values.length : 0
Average(values) ==
    IF values = <<>> THEN Num(0) ELSE RDiv(RSum(values), Num(Len(values)))

AvgCycleTime(records) == Average(Map(CycleTimeOf, SelectSeq(records, HasCycleTime)))

-----------------------------------------------------------------------------
(* The document *)

SectionNames == {"overview", "internalRFT", "externalRFT", "processMetrics", "insights"}

EmptyObject == <<>>

\* { ...old, ...new }
Spread(old, new) == new @@ old

\* the object the constructor builds
InitialDocument ==
    [overview |-> EmptyObject, internalRFT |-> EmptyObject, externalRFT |-> EmptyObject,
     processMetrics |-> EmptyObject, insights |-> EmptyObject,
     deviations |-> EmptyObject, g7Performance |-> EmptyObject]

\* property access on null or undefined raises a TypeError
HasNullRecord(records) == \E i \in 1..Len(records) : IsNull(records[i])

-----------------------------------------------------------------------------
(* transformOverviewData *)

HistoryMonths == 12

ComparisonMonths == 6

TopIssueCount == 3

OverviewThrows(records) == records # <<>> /\ HasNullRecord(records)

MonthlyMetric(group) ==
    [month |-> group.month,
     displayMonth |-> group.month % 100,
     rftRate |-> calculateRFTRate(group.records),
     avgCycleTime |-> AvgCycleTime(group.records),
     recordCount |-> Num(Len(group.records))]

\* a variant that guards only against a previous value of 0
GuardedChange_nonzero_guard(recent, previous) ==
    IF previous # Num(0)
    THEN RMul(RDiv(RSub(recent, previous), previous), Num(100))
    ELSE Num(0)

\* (recent - previous) / previous * 100 when previous > 0, else the initial 0
GuardedChange(recent, previous) ==
    IF RGt(previous, Num(0))
    THEN RMul(RDiv(RSub(recent, previous), previous), Num(100))
    ELSE Num(0)

ImprovementSummary(monthlyGroups) ==
    LET recentRecords ==
            Concat(Map(LAMBDA g : g.records, LastK(monthlyGroups, ComparisonMonths)))
        previousRecords ==
            Concat(Map(LAMBDA g : g.records,
                       FirstK(LastK(monthlyGroups, 2 * ComparisonMonths), ComparisonMonths)))
    IN  [recentRFT |-> calculateRFTRate(recentRecords),
         previousRFT |-> calculateRFTRate(previousRecords),
         rftChange |-> GuardedChange(calculateRFTRate(recentRecords),
                                     calculateRFTRate(previousRecords)),
         recentAvgCycleTime |-> AvgCycleTime(recentRecords),
         previousAvgCycleTime |-> AvgCycleTime(previousRecords),
         cycleTimeChange |-> GuardedChange(AvgCycleTime(recentRecords),
                                           AvgCycleTime(previousRecords))]

\* a variant whose totals are taken over the records of the month groups only
OverviewSection_totals_of_dated_records(old, records) ==
    LET monthlyGroups == groupRecordsByMonth(records, "assembly_start", HistoryMonths)
        dated == Concat(Map(LAMBDA g : g.records, monthlyGroups))
    IN  Spread(old,
               [totalRecords |-> Num(Len(dated)),
                overallRFTRate |-> calculateRFTRate(dated),
                avgCycleTime |-> AvgCycleTime(dated),
                monthlyMetrics |-> Map(MonthlyMetric, monthlyGroups),
                topIssues |-> analyzeErrorTypes(dated, TopIssueCount),
                rftPerformance |->
                    <<[name |-> "Pass",
                       value |-> Num(Len(SelectSeq(dated, LAMBDA r : ~HasErrors(r))))],
                      [name |-> "Fail",
                       value |-> Num(Len(SelectSeq(dated, LAMBDA r : HasErrors(r))))]>>])

\* the new value of transformedData.overview when nothing is thrown
OverviewSection(old, records) ==
    LET monthlyGroups == groupRecordsByMonth(records, "assembly_start", HistoryMonths)
        withSummary ==
            IF Len(monthlyGroups) >= 2 * ComparisonMonths
            THEN Spread(old, [improvementSummary |-> ImprovementSummary(monthlyGroups)])
            ELSE old
    IN  Spread(withSummary,
               [totalRecords |-> Num(Len(records)),
                overallRFTRate |-> calculateRFTRate(records),
                avgCycleTime |-> AvgCycleTime(records),
                monthlyMetrics |-> Map(MonthlyMetric, monthlyGroups),
                topIssues |-> analyzeErrorTypes(records, TopIssueCount),
                rftPerformance |->
                    <<[name |-> "Pass",
                       value |-> Num(Len(SelectSeq(records, LAMBDA r : ~HasErrors(r))))],
                      [name |-> "Fail",
                       value |-> Num(Len(SelectSeq(records, LAMBDA r : HasErrors(r))))]>>])

\* a variant without the early return on an empty array
transformOverviewData_writes_without_records(doc, records) ==
    IF OverviewThrows(records) THEN doc
    ELSE [doc EXCEPT !.overview = OverviewSection(doc.overview, records)]

transformOverviewData(doc, records) ==
    IF records = <<>> \/ OverviewThrows(records) THEN doc
    ELSE [doc EXCEPT !.overview = OverviewSection(doc.overview, records)]

-----------------------------------------------------------------------------
(* calculateParetoData (utility-functions.js) *)

\* parseFloat(x.toFixed(1)): the nearest tenth, the one of larger magnitude
\* when two are equally near; NaN and the infinities are printed and parsed back
ToFixed1(q) ==
    IF ~IsFinite(q) THEN q
    ELSE IF q.n < 0 THEN Rat(-((20 * (-q.n) + q.d) \div (2 * q.d)), 10)
    ELSE Rat((20 * q.n + q.d) \div (2 * q.d), 10)

LargerValue(a, b) == RGt(a.value, b.value)

calculateParetoData(data) ==
    LET sortedData == StableSort(LargerValue, data)
        total == RSum(Map(LAMBDA item : item.value, sortedData))
        item(i) ==
            LET cumulative == RSum(Map(LAMBDA it : it.value, SubSeq(sortedData, 1, i)))
            IN  [name |-> sortedData[i].name,
                 value |-> sortedData[i].value,
                 percentage |-> ToFixed1(RMul(RDiv(sortedData[i].value, total), Num(100))),
                 cumulative |-> cumulative,
                 cumulativePercentage |-> ToFixed1(RMul(RDiv(cumulative, total), Num(100)))]
    IN  [i \in 1..Len(sortedData) |-> item(i)]

-----------------------------------------------------------------------------
(* transformInternalRFTData *)

ParetoIssueCount == 10

ProblematicLotCount == 5

\* a variant that forgets the tag 'Process'
IsInternal_Internal_only(r) == Has(r, "source") /\ r.source = "Internal"

IsInternal(r) == Has(r, "source") /\ r.source \in {"Process", "Internal"}

\* a variant that keeps every record that is not tagged 'External'
InternalRecords_keeps_untagged(records) ==
    SelectSeq(records, LAMBDA r : ~Has(r, "source") \/ r.source # "External")

InternalRecords(records) == SelectSeq(records, IsInternal)

InternalThrows(records) == records # <<>> /\ HasNullRecord(records)

MonthlyRFT(group) ==
    [month |-> group.month,
     rftRate |-> calculateRFTRate(group.records),
     recordCount |-> Num(Len(group.records))]

\* the value of packagingCycleTimes.map(...) for one record: a number of days,
\* or null when a date does not parse
PackagingDuration(r) ==
    IF DateValid(r.packaging_start) /\ DateValid(r.packaging_finish)
    THEN <<DaysBetween(r.packaging_start, r.packaging_finish)>>
    ELSE <<>>

HasPackagingDates(r) == DateTruthy(r, "packaging_start") /\ DateTruthy(r, "packaging_finish")

ProcessComparison(internalRecords) ==
    LET assemblyRecords ==
            SelectSeq(internalRecords,
                LAMBDA r : DateTruthy(r, "assembly_start") /\ DateTruthy(r, "assembly_finish"))
        packagingRecords == SelectSeq(internalRecords, HasPackagingDates)
        assemblyCycleTimes ==
            Map(LAMBDA r : Num(r.assembly_cycle_time),
                SelectSeq(assemblyRecords, LAMBDA r : NumTruthy(r, "assembly_cycle_time")))
        packagingCycleTimes == Concat(Map(PackagingDuration, packagingRecords))
    IN  [assembly |-> [recordCount |-> Num(Len(assemblyRecords)),
                       rftRate |-> calculateRFTRate(assemblyRecords),
                       avgCycleTime |-> Average(assemblyCycleTimes)],
         packaging |-> [recordCount |-> Num(Len(packagingRecords)),
                        rftRate |-> calculateRFTRate(packagingRecords),
                        avgCycleTime |-> Average(packagingCycleTimes)]]

\* the fields a lot entry copies; a field the record lacks is undefined
LotEntry(r) ==
    [f \in {"batchId", "errorCount", "date", "errorTypes"}
            \cap ((DOMAIN r \ {"assembly_start"})
                  \cup (IF Has(r, "assembly_start") THEN {"date"} ELSE {})) |->
        IF f = "date" THEN r.assembly_start ELSE r[f]]

MoreErrors(a, b) == a.errorCount > b.errorCount

ProblematicLots(internalRecords) ==
    FirstK(StableSort(MoreErrors,
               Map(LotEntry,
                   SelectSeq(internalRecords,
                       LAMBDA r : HasErrors(r) /\ Has(r, "errorCount") /\ r.errorCount > 1))),
           ProblematicLotCount)

InternalSection(records) ==
    LET internalRecords == InternalRecords(records)
    IN  [recordCount |-> Num(Len(internalRecords)),
         internalRFT |-> calculateRFTRate(internalRecords),
         monthlyRFT |-> Map(MonthlyRFT,
                            groupRecordsByMonth(internalRecords, "assembly_start", HistoryMonths)),
         errorPareto |->
             calculateParetoData(
                 Map(LAMBDA e : [name |-> e.name, value |-> e.count],
                     analyzeErrorTypes(SelectSeq(internalRecords, HasErrors), ParetoIssueCount))),
         processComparison |-> ProcessComparison(internalRecords),
         problematicLots |-> ProblematicLots(internalRecords)]

\* a variant without the early return when no record is internal
transformInternalRFTData_writes_without_internal_records(doc, records) ==
    IF records = <<>> \/ InternalThrows(records) THEN doc
    ELSE [doc EXCEPT !.internalRFT = InternalSection(records)]

transformInternalRFTData(doc, records) ==
    IF records = <<>> \/ InternalThrows(records) \/ InternalRecords(records) = <<>> THEN doc
    ELSE [doc EXCEPT !.internalRFT = InternalSection(records)]

-----------------------------------------------------------------------------
(* Pearson correlation *)

\* A correlation numerator / Math.sqrt(denomA * denomB) is kept as its sign
\* and its square, which is rational; 0 is [sign |-> 0, sq |-> Num(0)]
ZeroCorrelation == [sign |-> 0, sq |-> Num(0)]

Sign(q) == IF q.n > 0 THEN 1 ELSE IF q.n < 0 THEN -1 ELSE 0

\* a variant whose denominator is denomX + denomY, not the root of the product
Pearson_sum_of_squares(xs, ys) ==
    LET xMean == RDiv(RSum(xs), Num(Len(xs)))
        yMean == RDiv(RSum(ys), Num(Len(ys)))
        xDiff(i) == RSub(xs[i], xMean)
        yDiff(i) == RSub(ys[i], yMean)
        numerator == RSum([i \in 1..Len(xs) |-> RMul(xDiff(i), yDiff(i))])
        denomX == RSum([i \in 1..Len(xs) |-> RMul(xDiff(i), xDiff(i))])
        denomY == RSum([i \in 1..Len(xs) |-> RMul(yDiff(i), yDiff(i))])
        quotient == RDiv(numerator, RAdd(denomX, denomY))
    IN  IF RAdd(denomX, denomY) = Num(0) THEN ZeroCorrelation
        ELSE [sign |-> Sign(numerator), sq |-> RMul(quotient, quotient)]

\* xs and ys are the two series of the pairs, of the same length
Pearson(xs, ys) ==
    LET xMean == RDiv(RSum(xs), Num(Len(xs)))
        yMean == RDiv(RSum(ys), Num(Len(ys)))
        xDiff(i) == RSub(xs[i], xMean)
        yDiff(i) == RSub(ys[i], yMean)
        numerator == RSum([i \in 1..Len(xs) |-> RMul(xDiff(i), yDiff(i))])
        denomX == RSum([i \in 1..Len(xs) |-> RMul(xDiff(i), xDiff(i))])
        denomY == RSum([i \in 1..Len(xs) |-> RMul(yDiff(i), yDiff(i))])
    IN  IF RMul(denomX, denomY) = Num(0) THEN ZeroCorrelation
        ELSE [sign |-> Sign(numerator),
              sq |-> RDiv(RMul(numerator, numerator), RMul(denomX, denomY))]

\* a variant that lets an equal correlation replace the best one
StrongerThan_or_equal(a, b) == RGe(a.sq, b.sq)

\* Math.abs(a) > Math.abs(b)
StrongerThan(a, b) == RGt(a.sq, b.sq)

\* c > bound for a bound that is not negative, given as a fraction
CorrelationAbove(c, boundNum, boundDen) ==
    c.sign = 1 /\ RGt(c.sq, Rat(boundNum * boundNum, boundDen * boundDen))

\* the digits of c.toFixed(2) as a number of hundredths, without the sign
ToFixed2(c) ==
    CHOOSE k \in 0..100 :
        /\ (k = 0 \/ RLe(Rat((2 * k - 1) * (2 * k - 1), 40000), c.sq))
        /\ RLt(c.sq, Rat((2 * k + 1) * (2 * k + 1), 40000))

-----------------------------------------------------------------------------
(* transformExternalRFTData *)

ExternalIssueCount == 5

maxLag == 3

MinPairs == 3

IsExternal(r) == Has(r, "source") /\ r.source = "External"

ExternalRecords(records) == SelectSeq(records, IsExternal)

ExternalThrows(records) == records # <<>> /\ HasNullRecord(records)

\* externalMonthlyGroups[month] || []
GroupOf(groups, month) ==
    IF \E i \in 1..Len(groups) : groups[i].month = month
    THEN (CHOOSE g \in {groups[i] : i \in 1..Len(groups)} : g.month = month).records
    ELSE <<>>

MonthlyComparison(externalRecords, internalRecords) ==
    LET externalMonthlyGroups ==
            groupRecordsByMonth(externalRecords, "assembly_start", HistoryMonths)
        internalMonthlyGroups ==
            groupRecordsByMonth(internalRecords, "assembly_start", HistoryMonths)
        allMonths == {externalMonthlyGroups[i].month : i \in 1..Len(externalMonthlyGroups)}
                     \cup {internalMonthlyGroups[i].month : i \in 1..Len(internalMonthlyGroups)}
    IN  Map(LAMBDA month :
                [month |-> month,
                 externalRFT |-> calculateRFTRate(GroupOf(externalMonthlyGroups, month)),
                 internalRFT |-> calculateRFTRate(GroupOf(internalMonthlyGroups, month)),
                 externalCount |-> Num(Len(GroupOf(externalMonthlyGroups, month))),
                 internalCount |-> Num(Len(GroupOf(internalMonthlyGroups, month)))],
            SortedKeys(allMonths))

\* the indexes (from 1) of the months that give a pair at this lag
PairIndexes(monthlyComparison, lag) ==
    SelectSeq([i \in 1..Len(monthlyComparison) |-> i],
              LAMBDA i : /\ i - 1 >= lag
                         /\ RGt(monthlyComparison[i].externalRFT, Num(0))
                         /\ RGt(monthlyComparison[i - lag].internalRFT, Num(0)))

LagCorrelation(monthlyComparison, lag) ==
    LET idx == PairIndexes(monthlyComparison, lag)
    IN  Pearson(Map(LAMBDA i : monthlyComparison[i - lag].internalRFT, idx),
                Map(LAMBDA i : monthlyComparison[i].externalRFT, idx))

\* a variant that computes the correlation from two pairs on
RECURSIVE BestAfter_two_pairs_suffice(_, _)
BestAfter_two_pairs_suffice(monthlyComparison, lag) ==
    LET before == IF lag = 0 THEN [correlation |-> ZeroCorrelation, lag |-> 0]
                  ELSE BestAfter_two_pairs_suffice(monthlyComparison, lag - 1)
    IN  IF /\ Len(PairIndexes(monthlyComparison, lag)) >= MinPairs - 1
           /\ StrongerThan(LagCorrelation(monthlyComparison, lag), before.correlation)
        THEN [correlation |-> LagCorrelation(monthlyComparison, lag), lag |-> lag]
        ELSE before

\* the state of bestCorrelation and bestLag after the iterations 0..lag
RECURSIVE BestAfter(_, _)
BestAfter(monthlyComparison, lag) ==
    LET before == IF lag = 0 THEN [correlation |-> ZeroCorrelation, lag |-> 0]
                  ELSE BestAfter(monthlyComparison, lag - 1)
    IN  IF /\ Len(PairIndexes(monthlyComparison, lag)) >= MinPairs
           /\ StrongerThan(LagCorrelation(monthlyComparison, lag), before.correlation)
        THEN [correlation |-> LagCorrelation(monthlyComparison, lag), lag |-> lag]
        ELSE before

Observation(best) ==
    IF CorrelationAbove(best.correlation, 7, 10)
    THEN [text |-> "Strong positive correlation",
          correlation |-> ToFixed2(best.correlation), lag |-> best.lag]
    ELSE IF CorrelationAbove(best.correlation, 4, 10)
    THEN [text |-> "Moderate correlation",
          correlation |-> ToFixed2(best.correlation), lag |-> best.lag]
    ELSE IF best.correlation.sign = 1
    THEN [text |-> "Weak correlation",
          correlation |-> ToFixed2(best.correlation), lag |-> best.lag]
    ELSE [text |-> "No positive correlation found between internal and external RFT."]

ImpactAnalysis(monthlyComparison) ==
    LET best == BestAfter(monthlyComparison, maxLag)
    IN  [correlation |-> best.correlation,
         lagTime |-> best.lag,
         observations |-> <<Observation(best)>>]

ExternalSection(records) ==
    LET externalRecords == ExternalRecords(records)
        internalRecords == InternalRecords(records)
        monthlyComparison == MonthlyComparison(externalRecords, internalRecords)
    IN  [recordCount |-> Num(Len(externalRecords)),
         externalRFT |-> calculateRFTRate(externalRecords),
         internalRFT |-> calculateRFTRate(internalRecords),
         monthlyComparison |-> monthlyComparison,
         topIssues |-> analyzeErrorTypes(SelectSeq(externalRecords, HasErrors),
                                         ExternalIssueCount),
         impactAnalysis |-> ImpactAnalysis(monthlyComparison)]

\* a variant that takes the internal rate from the internalRFT section of the
\* document instead of computing it from the records
transformExternalRFTData_reads_internal_section(doc, records) ==
    IF records = <<>> \/ ExternalThrows(records) \/ ExternalRecords(records) = <<>> THEN doc
    ELSE [doc EXCEPT !.externalRFT =
              Spread(ExternalSection(records),
                     [internalRFT |-> IF Has(doc.internalRFT, "internalRFT")
                                      THEN doc.internalRFT.internalRFT
                                      ELSE Num(0)])]

transformExternalRFTData(doc, records) ==
    IF records = <<>> \/ ExternalThrows(records) \/ ExternalRecords(records) = <<>> THEN doc
    ELSE [doc EXCEPT !.externalRFT = ExternalSection(records)]

-----------------------------------------------------------------------------
(* calculateStatistics (utility-functions.js) *)

\* Math.sqrt(x) is kept as the rational x under the root
SqrtOf(x) == [sqrtOf |-> x]

ZeroStatistics ==
    [min |-> Num(0), max |-> Num(0), mean |-> Num(0), median |-> Num(0),
     standardDeviation |-> SqrtOf(Num(0))]

Smaller(a, b) == RLt(a, b)

\* a variant with the sample deviation: the squares are divided by one less
\* than the number of values
calculateStatistics_sample_deviation(data) ==
    LET numericData == SelectSeq(data, LAMBDA val : ~IsNaN(val))
        sortedData == StableSort(Smaller, numericData)
        len == Len(sortedData)
        mean == RDiv(RSum(sortedData), Num(len))
        midpoint == len \div 2
        squareDiffs == Map(LAMBDA value : RMul(RSub(value, mean), RSub(value, mean)),
                           sortedData)
    IN  IF numericData = <<>> THEN ZeroStatistics
        ELSE [min |-> sortedData[1],
              max |-> sortedData[len],
              mean |-> mean,
              median |-> IF len % 2 = 0
                         THEN RDiv(RAdd(sortedData[midpoint], sortedData[midpoint + 1]), Num(2))
                         ELSE sortedData[midpoint + 1],
              standardDeviation |-> SqrtOf(RDiv(RSum(squareDiffs), Num(len - 1)))]

\* data holds numbers only: the typeof filter keeps every entry that is not NaN
calculateStatistics(data) ==
    LET numericData == SelectSeq(data, LAMBDA val : ~IsNaN(val))
        sortedData == StableSort(Smaller, numericData)
        len == Len(sortedData)
        mean == RDiv(RSum(sortedData), Num(len))
        midpoint == len \div 2
        squareDiffs == Map(LAMBDA value : RMul(RSub(value, mean), RSub(value, mean)),
                           sortedData)
    IN  IF numericData = <<>> THEN ZeroStatistics
        ELSE [min |-> sortedData[1],
              max |-> sortedData[len],
              mean |-> mean,
              median |-> IF len % 2 = 0
                         THEN RDiv(RAdd(sortedData[midpoint], sortedData[midpoint + 1]), Num(2))
                         ELSE sortedData[midpoint + 1],
              standardDeviation |-> SqrtOf(RDiv(RSum(squareDiffs), Num(len)))]

-----------------------------------------------------------------------------
(* transformProcessMetricsData *)

ProcessDateFields ==
    <<"date_pci_l_a_br_review_date", "date_nn_l_a_br_review_date",
      "date_pci_pack_review_date", "date_nn_pack_review_date">>

dateMapping ==
    <<[name |-> "PCI L/A BR Review", field |-> "date_pci_l_a_br_review_date"],
      [name |-> "NN L/A BR Review", field |-> "date_nn_l_a_br_review_date"],
      [name |-> "PCI Packaging Review", field |-> "date_pci_pack_review_date"],
      [name |-> "NN Packaging Review", field |-> "date_nn_pack_review_date"],
      [name |-> "Release", field |-> "release"]>>

IsProcessRecord(r) == \E i \in 1..Len(ProcessDateFields) : DateTruthy(r, ProcessDateFields[i])

ProcessRecords(records) == SelectSeq(records, IsProcessRecord)

ProcessThrows(records) == records # <<>> /\ HasNullRecord(records)

ProcessFlow(r) ==
    LET steps == Map(LAMBDA step : [name |-> step.name, date |-> r[step.field]],
                     SelectSeq(dateMapping, LAMBDA step : DateTruthy(r, step.field)))
    IN  IF Has(r, "batchId") THEN [batchId |-> r.batchId, steps |-> steps]
        ELSE [steps |-> steps]

\* the days pushed to nnReviewTime for one record: none, or one
NNReviewTime(r) ==
    IF /\ DateTruthy(r, "date_nn_l_a_br_review_date")
       /\ DateTruthy(r, "date_pci_l_a_br_review_date")
       /\ DateValid(r.date_nn_l_a_br_review_date)
       /\ DateValid(r.date_pci_l_a_br_review_date)
       /\ RGe(DaysBetween(r.date_pci_l_a_br_review_date, r.date_nn_l_a_br_review_date), Num(0))
    THEN <<DaysBetween(r.date_pci_l_a_br_review_date, r.date_nn_l_a_br_review_date)>>
    ELSE <<>>

NNReviewTimes(records) == Concat(Map(NNReviewTime, records))

\* the values of a numeric field over the records where it is truthy
FieldValues(records, field) ==
    Map(LAMBDA r : Num(r[field]), SelectSeq(records, LAMBDA r : NumTruthy(r, field)))

MonthlyProcessMetric(group) ==
    [month |-> group.month,
     nnReviewTime |-> Average(NNReviewTimes(group.records)),
     pciCorrectionTime |-> Average(FieldValues(group.records, "pci_wip_review_cycle_time")),
     nnAlignmentTime |-> Average(FieldValues(group.records, "nn_wip_review_cycle_time")),
     totalProcessTime |->
         Average(Map(CycleTimeOf, SelectSeq(group.records, HasCycleTime))),
     recordCount |-> Num(Len(group.records))]

ProcessMetricsSection(records) ==
    LET processRecords == ProcessRecords(records)
    IN  [recordCount |-> Num(Len(processRecords)),
         processFlowMetrics |-> Map(ProcessFlow, processRecords),
         timeMetricsStats |->
             [nnReviewTime |-> calculateStatistics(NNReviewTimes(processRecords)),
              pciCorrectionTime |->
                  calculateStatistics(FieldValues(processRecords, "pci_wip_review_cycle_time")),
              nnAlignmentTime |->
                  calculateStatistics(FieldValues(processRecords, "nn_wip_review_cycle_time"))],
         monthlyProcessMetrics |->
             Map(MonthlyProcessMetric,
                 groupRecordsByMonth(processRecords, "assembly_start", HistoryMonths))]

transformProcessMetricsData(doc, records) ==
    IF records = <<>> \/ ProcessThrows(records) \/ ProcessRecords(records) = <<>> THEN doc
    ELSE [doc EXCEPT !.processMetrics = ProcessMetricsSection(records)]

-----------------------------------------------------------------------------
(* groupBy (utility-functions.js) *)

Undefined == "undefined"

\* groups[key] of a fresh object literal is truthy for an inherited name, and
\* the inherited member has no push method
groupByThrows(keys) == \E i \in 1..Len(keys) : keys[i] \in ProtoNames

\* the distinct elements of a sequence in the order of their first occurrence
RECURSIVE FirstOccurrences(_)
FirstOccurrences(s) ==
    IF s = <<>> THEN <<>>
    ELSE LET rest == FirstOccurrences(SubSeq(s, 1, Len(s) - 1))
         IN  IF \E i \in 1..(Len(s) - 1) : s[i] = s[Len(s)] THEN rest
             ELSE Append(rest, s[Len(s)])

\* the entries of groupBy(data, 'type') in insertion order
groupBy(data) ==
    Map(LAMBDA key : [key |-> key, items |-> SelectSeq(data, LAMBDA item : item.type = key)],
        FirstOccurrences(Map(LAMBDA item : item.type, data)))

-----------------------------------------------------------------------------
(* transformInsightsData *)

MinCorrelationPoints == 10

RecurringMinimum == 3

SeasonalMonthCount == 2

processStages ==
    <<[name |-> "Assembly", durationField |-> "assembly_cycle_time"],
      [name |-> "PCI Review", durationField |-> "pci_wip_review_cycle_time"],
      [name |-> "NN Review", durationField |-> "nn_wip_review_cycle_time"],
      [name |-> "Packaging"]>>

BatchIdOf(r) == IF Has(r, "batchId") THEN r.batchId ELSE Undefined

\* the entry pushed to durations for one record of one stage: none, or one
StageDuration(stage, r) ==
    IF Has(stage, "durationField")
    THEN IF NumTruthy(r, stage.durationField)
         THEN <<[batchId |-> BatchIdOf(r), duration |-> Num(r[stage.durationField])]>>
         ELSE <<>>
    ELSE IF HasPackagingDates(r)
         THEN Map(LAMBDA days : [batchId |-> BatchIdOf(r), duration |-> days],
                  PackagingDuration(r))
         ELSE <<>>

StageDurations(stage, records) ==
    Concat(Map(LAMBDA r : StageDuration(stage, r), records))

\* a variant with > in place of >=
IsOutlier_strict(duration, stats) ==
    /\ RGe(RSub(duration, stats.mean), Num(0))
    /\ RGt(RMul(RSub(duration, stats.mean), RSub(duration, stats.mean)),
           RMul(Num(4), stats.standardDeviation.sqrtOf))

\* d.duration >= stats.mean + 2 * stats.standardDeviation
IsOutlier(duration, stats) ==
    /\ RGe(RSub(duration, stats.mean), Num(0))
    /\ RGe(RMul(RSub(duration, stats.mean), RSub(duration, stats.mean)),
           RMul(Num(4), stats.standardDeviation.sqrtOf))

\* mean + 2 * standardDeviation, kept as the mean and the square of the rest
OutlierThreshold(stats) ==
    [base |-> stats.mean, plusSqrtOf |-> RMul(Num(4), stats.standardDeviation.sqrtOf)]

StageStats(durations) == calculateStatistics(Map(LAMBDA d : d.duration, durations))

StageOutliers(stage, durations) ==
    Map(LAMBDA d : [batchId |-> d.batchId, stage |-> stage.name, duration |-> d.duration,
                    threshold |-> OutlierThreshold(StageStats(durations))],
        SelectSeq(durations, LAMBDA d : IsOutlier(d.duration, StageStats(durations))))

StageSummary(stage, durations) ==
    LET stats == StageStats(durations)
    IN  [name |-> stage.name, count |-> Num(Len(durations)),
         avgDuration |-> stats.mean, medianDuration |-> stats.median,
         minDuration |-> stats.min, maxDuration |-> stats.max,
         stdDev |-> stats.standardDeviation]

LongerAverage(a, b) == RGt(a.avgDuration, b.avgDuration)

LongerDuration(a, b) == RGt(a.duration, b.duration)

BottleneckAnalysis(records) ==
    LET measured == SelectSeq(processStages,
                              LAMBDA stage : StageDurations(stage, records) # <<>>)
        stages == StableSort(LongerAverage,
                     Map(LAMBDA stage : StageSummary(stage, StageDurations(stage, records)),
                         measured))
        outliers == Concat(Map(LAMBDA stage :
                                   StageOutliers(stage, StageDurations(stage, records)),
                               measured))
    IN  [stages |-> stages,
         bottleneck |-> IF stages = <<>> THEN "" ELSE stages[1].name,
         outliers |-> StableSort(LongerDuration, outliers)]

\* the order of Array.prototype.sort() without a comparator on date strings:
\* an ISO date sorts before 'N/A', which sorts before other text
DateRank(v) ==
    IF v.k = "date" THEN DayNumber(v)
    ELSE IF v.k = "NA" THEN 10000000
    ELSE 20000000

EarlierDate(a, b) == DateRank(a) < DateRank(b)

\* allErrorTypes: one entry for every error type of every record with errors
ErrorOccurrences(records) ==
    Concat(Map(LAMBDA r :
                   Map(LAMBDA type : [type |-> type, record |-> r],
                       SelectSeq(ErrorTypeList(r), LAMBDA type : type # <<>>)),
               SelectSeq(records, LAMBDA r : HasErrors(r) /\ ErrorTypesTruthy(r))))

\* occurrences.map(o => o.date).sort(): undefined dates go last and are left out here
SortedDates(occurrences) ==
    StableSort(EarlierDate,
        Map(LAMBDA o : o.record.assembly_start,
            SelectSeq(occurrences, LAMBDA o : Has(o.record, "assembly_start"))))

RecurringIssue(group) ==
    LET dates == SortedDates(group.items)
        allDated == Len(dates) = Len(group.items)
        base == [type |-> group.key,
                 occurrences |-> Num(Len(group.items)),
                 batches |-> Map(LAMBDA o : BatchIdOf(o.record), group.items)]
        first == IF dates = <<>> THEN base ELSE Spread(base, [firstSeen |-> dates[1]])
    IN  IF allDated THEN Spread(first, [lastSeen |-> dates[Len(dates)]]) ELSE first

MoreOccurrences(a, b) == RGt(a.occurrences, b.occurrences)

HigherErrorRate(a, b) == RGt(a.errorRate, b.errorRate)

SeasonalTrends(records) ==
    LET monthlyErrorGroups ==
            groupRecordsByMonth(SelectSeq(records, HasErrors), "assembly_start", HistoryMonths)
        allGroups == groupRecordsByMonth(records, "assembly_start", HistoryMonths)
        monthlyErrorCounts ==
            SelectSeq(Map(LAMBDA g : [month |-> g.month,
                                      errorCount |-> Len(g.records),
                                      totalCount |-> Len(GroupOf(allGroups, g.month))],
                          monthlyErrorGroups),
                      LAMBDA item : item.totalCount > 0)
        avgErrorRate ==
            RDiv(RSum(Map(LAMBDA item : Rat(item.errorCount, item.totalCount),
                          monthlyErrorCounts)),
                 Num(Len(monthlyErrorCounts)))
        isHigh(item) == RGt(Rat(item.errorCount, item.totalCount),
                            RMul(avgErrorRate, Rat(12, 10)))
    IN  StableSort(HigherErrorRate,
            Map(LAMBDA item : [month |-> item.month,
                               errorRate |-> RMul(Rat(item.errorCount, item.totalCount), Num(100)),
                               isHigh |-> TRUE],
                SelectSeq(monthlyErrorCounts, isHigh)))

PatternAnalysis(records) ==
    [seasonalTrends |-> SeasonalTrends(records),
     recurringIssues |->
         StableSort(MoreOccurrences,
             Map(RecurringIssue,
                 SelectSeq(groupBy(ErrorOccurrences(records)),
                           LAMBDA group : Len(group.items) >= RecurringMinimum)))]

\* correlations: cycleTimeErrorRate is set when more than ten records carry a cycle time
Correlations(records) ==
    LET dataPoints == SelectSeq(records, HasCycleTime)
    IN  IF Len(dataPoints) > MinCorrelationPoints
        THEN [cycleTimeErrorRate |->
                  Pearson(Map(CycleTimeOf, dataPoints),
                          Map(LAMBDA r : IF HasErrors(r) THEN Num(1) ELSE Num(0), dataPoints))]
        ELSE EmptyObject

\* the recommendations, each as its area and the values its text is built from
Recommendations(correlations, bottleneckAnalysis, patternAnalysis) ==
    (IF bottleneckAnalysis.bottleneck # ""
     THEN <<[area |-> "Process Optimization",
             stage |-> bottleneckAnalysis.bottleneck,
             avgDuration |-> ToFixed1(bottleneckAnalysis.stages[1].avgDuration)]>>
     ELSE <<>>)
    \o
    (IF /\ Has(correlations, "cycleTimeErrorRate")
        /\ RGt(correlations.cycleTimeErrorRate.sq, Rat(16, 100))
     THEN <<[area |-> "Quality Improvement",
             direction |-> IF correlations.cycleTimeErrorRate.sign = 1
                           THEN "positive" ELSE "negative",
             correlation |-> ToFixed2(correlations.cycleTimeErrorRate)]>>
     ELSE <<>>)
    \o
    (IF patternAnalysis.recurringIssues # <<>>
     THEN <<[area |-> "Error Reduction",
             type |-> patternAnalysis.recurringIssues[1].type,
             occurrences |-> patternAnalysis.recurringIssues[1].occurrences]>>
     ELSE <<>>)
    \o
    (IF patternAnalysis.seasonalTrends # <<>>
     THEN <<[area |-> "Resource Planning",
             highMonths |-> Map(LAMBDA m : m.month,
                                FirstK(patternAnalysis.seasonalTrends, SeasonalMonthCount))]>>
     ELSE <<>>)

InsightsThrows(records) ==
    /\ records # <<>>
    /\ \/ HasNullRecord(records)
       \/ groupByThrows(Map(LAMBDA o : o.type, ErrorOccurrences(records)))

InsightsSection(records) ==
    [correlations |-> Correlations(records),
     bottleneckAnalysis |-> BottleneckAnalysis(records),
     patternAnalysis |-> PatternAnalysis(records),
     recommendations |-> Recommendations(Correlations(records), BottleneckAnalysis(records),
                                         PatternAnalysis(records))]

transformInsightsData(doc, records) ==
    IF records = <<>> \/ InsightsThrows(records) THEN doc
    ELSE [doc EXCEPT !.insights = InsightsSection(records)]

-----------------------------------------------------------------------------
(* transformDeviationsData, transformG7PerformanceData *)

DeviationsPlaceholder ==
    [info |-> "This tab is a placeholder for future implementation of Deviations/Events tracking.",
     plannedFunctionality |->
         <<"Event timeline visualization", "Deviation severity tracking",
           "CAPA management integration", "Compliance impact assessment">>,
     expectedDataSources |->
         <<"Deviation management system", "Quality event database",
           "Regulatory submission records">>]

G7PerformancePlaceholder ==
    [info |-> "This tab is a placeholder for future implementation of G7 Performance Qualifications tracking.",
     plannedFunctionality |->
         <<"Qualification status tracking", "Performance trending",
           "Validation lifecycle management", "Equipment efficiency metrics">>,
     expectedDataSources |->
         <<"Equipment qualification records", "Engineering maintenance system",
           "Performance qualification protocols">>]

transformDeviationsData(doc) == [doc EXCEPT !.deviations = DeviationsPlaceholder]

transformG7PerformanceData(doc) == [doc EXCEPT !.g7Performance = G7PerformancePlaceholder]

-----------------------------------------------------------------------------
(* transformData *)

\* the sections whose try block raises for these records
ThrowingSections(records) ==
    {s \in SectionNames :
        \/ s = "overview" /\ OverviewThrows(records)
        \/ s = "internalRFT" /\ InternalThrows(records)
        \/ s = "externalRFT" /\ ExternalThrows(records)
        \/ s = "processMetrics" /\ ProcessThrows(records)
        \/ s = "insights" /\ InsightsThrows(records)}

\* the five section transformers in the order in which transformData calls them
transformSections(doc, records) ==
    transformInsightsData(
      transformProcessMetricsData(
        transformExternalRFTData(
          transformInternalRFTData(
            transformOverviewData(doc, records), records), records), records), records)

\* the section transformers, then the placeholders
transformData(doc, records) ==
    transformG7PerformanceData(transformDeviationsData(transformSections(doc, records)))

\* one section transformer called on its own
RunSection(s, doc, records) ==
    IF s = "overview" THEN transformOverviewData(doc, records)
    ELSE IF s = "internalRFT" THEN transformInternalRFTData(doc, records)
    ELSE IF s = "externalRFT" THEN transformExternalRFTData(doc, records)
    ELSE IF s = "processMetrics" THEN transformProcessMetricsData(doc, records)
    ELSE transformInsightsData(doc, records)

-----------------------------------------------------------------------------
(* The DataTransformer object as a state machine *)

MaxRecords == 2

MaxRuns == 2

\* the arrays of at most n elements of D
Arrays(D, n) == UNION {[1..k -> D] : k \in 0..n}

NoFunction == [name |-> "none"]

Init ==
    /\ rawRecords = <<>>
    /\ transformedData = InitialDocument
    /\ op = "constructor"
    /\ completion = "return"
    /\ threw = {}
    /\ docBefore = InitialDocument
    /\ runs = 0
    /\ pending = {}
    /\ sourceFiles = NoFiles
    /\ outputFile = NoFiles
    /\ dataState = NotRendered
    /\ loads = <<>>
    /\ fnArgs = NoFunction
    /\ fnResult = NoFunction

\* setRawData(records) with an array.  The call overwrites rawRecords, so a
\* call that follows another setRawData reaches no state that a single call
\* does not reach: the model leaves those steps out.
SetRawData(records) ==
    /\ pending = {}
    /\ runs < MaxRuns
    /\ op # "setRawData"
    /\ rawRecords' = records
    /\ op' = "setRawData"
    /\ completion' = "return"
    /\ UNCHANGED <<dataState, loads, sourceFiles, outputFile, transformedData, threw, docBefore, runs, pending, fnArgs, fnResult>>

\* setRawData(records) with something that is not an array
SetRawDataInvalid ==
    /\ pending = {}
    /\ runs < MaxRuns
    /\ op' = "setRawData"
    /\ completion' = "return"
    /\ UNCHANGED <<dataState, loads, sourceFiles, outputFile, rawRecords, transformedData, threw, docBefore, runs, pending,
                   fnArgs, fnResult>>

\* transformData()
TransformData ==
    /\ pending = {}
    /\ runs < MaxRuns
    /\ transformedData' = transformData(transformedData, rawRecords)
    /\ threw' = ThrowingSections(rawRecords)
    /\ runs' = runs + 1
    /\ op' = "transformData"
    /\ completion' = "return"
    /\ UNCHANGED <<dataState, loads, sourceFiles, outputFile, rawRecords, docBefore, pending, fnArgs, fnResult>>

\* the records of the runs of Spec: an internal record without errors, an
\* external record with an error type, a record without a source tag, an
\* internal record whose error type is 'constructor', and a null element
MainRecords ==
    {[source |-> "Internal", hasErrors |-> FALSE],
     [source |-> "External", hasErrors |-> TRUE,
      errorTypes |-> [kind |-> "arr", items |-> << <<"A">> >>]],
     [hasErrors |-> FALSE],
     [source |-> "Internal", hasErrors |-> TRUE,
      errorTypes |-> [kind |-> "arr", items |-> << <<"constructor">> >>]],
     Null}

Next ==
    \/ \E records \in Arrays(MainRecords, MaxRecords) : SetRawData(records)
    \/ SetRawDataInvalid
    \/ TransformData

Spec == Init /\ [][Next]_vars

-----------------------------------------------------------------------------
(* Claims on the reused object: Spec *)

\* the call that has just returned is a run of transformData
RunEnded == op = "transformData"

\* this step is a run of transformData
IsRun == op' = "transformData" /\ runs' = runs + 1

NoRecordHasSource(records) == \A i \in 1..Len(records) : ~Has(records[i], "source")

\* C1: after every run the document equals the document that a new
\* DataTransformer produces for the same records, so that nothing computed from
\* the records of an earlier run survives.
C1_RunReplacesDocument ==
    RunEnded => transformedData = transformData(InitialDocument, rawRecords)

\* C2: after a run in which section transformers raised, the call has returned
\* and every section that raised holds the empty object.
C2_FailedSectionIsEmpty ==
    (RunEnded /\ threw # {}) =>
        /\ completion = "return"
        /\ \A s \in threw : transformedData[s] = EmptyObject

\* C3 as stated: after a run over a non-empty array in which no record has a
\* source field the call has returned, internalRFT.recordCount and
\* externalRFT.recordCount are 0 and overview.totalRecords is the number of
\* records.
C3_NoSourceCountsAreZero ==
    (RunEnded /\ rawRecords # <<>> /\ ~HasNullRecord(rawRecords)
        /\ NoRecordHasSource(rawRecords)) =>
        /\ completion = "return"
        /\ Has(transformedData.internalRFT, "recordCount")
        /\ transformedData.internalRFT.recordCount = Num(0)
        /\ Has(transformedData.externalRFT, "recordCount")
        /\ transformedData.externalRFT.recordCount = Num(0)
        /\ transformedData.overview.totalRecords = Num(Len(rawRecords))

\* C3 as amended: a run over a non-empty array of records none of which has a
\* source field returns, leaves internalRFT and externalRFT exactly as they
\* were before the run (the empty object, without a recordCount, when it is
\* the first run of the object), and sets overview.totalRecords to the number
\* of records.
C3_NoSourceLeavesRFTSections ==
    [][(IsRun /\ rawRecords # <<>> /\ ~HasNullRecord(rawRecords)
            /\ NoRecordHasSource(rawRecords)) =>
          /\ completion' = "return"
          /\ transformedData'.internalRFT = transformedData.internalRFT
          /\ transformedData'.externalRFT = transformedData.externalRFT
          /\ (runs = 0 => /\ transformedData'.internalRFT = EmptyObject
                          /\ transformedData'.externalRFT = EmptyObject)
          /\ transformedData'.overview.totalRecords = Num(Len(rawRecords))]_vars

\* a second run, over records without a source, that follows a run which
\* found internal records
C3_Witness ==
    /\ RunEnded /\ runs = 2
    /\ rawRecords # <<>> /\ ~HasNullRecord(rawRecords) /\ NoRecordHasSource(rawRecords)
    /\ Has(transformedData.internalRFT, "recordCount")
    /\ transformedData.overview.totalRecords = Num(Len(rawRecords))

\* C4 as stated: after a run without input records the call has returned and
\* every section holds zero-valued fields: overview.totalRecords is 0 and the
\* recordCount of internalRFT, externalRFT and processMetrics is 0.
C4_EmptyInputGivesZeroFields ==
    (RunEnded /\ rawRecords = <<>>) =>
        /\ completion = "return"
        /\ Has(transformedData.overview, "totalRecords")
        /\ transformedData.overview.totalRecords = Num(0)
        /\ \A s \in {"internalRFT", "externalRFT", "processMetrics"} :
               /\ Has(transformedData[s], "recordCount")
               /\ transformedData[s].recordCount = Num(0)

\* C4 as amended: a run without input records returns a document in which
\* every top-level section is present, and leaves overview, internalRFT,
\* externalRFT, processMetrics and insights exactly as they were before the
\* run: on a new object each of them is the empty object, with no
\* totalRecords and no recordCount.
C4_EmptyInputLeavesSections ==
    [][(IsRun /\ rawRecords = <<>>) =>
          /\ completion' = "return"
          /\ DOMAIN transformedData' = DOMAIN InitialDocument
          /\ \A s \in SectionNames : transformedData'[s] = transformedData[s]
          /\ (runs = 0 => \A s \in SectionNames : transformedData'[s] = EmptyObject)
          /\ transformedData'.deviations = DeviationsPlaceholder
          /\ transformedData'.g7Performance = G7PerformancePlaceholder]_vars

\* a run without records on a new object, and one after setRawData([]) on an
\* object that has already produced a document
C4_Witness ==
    /\ RunEnded /\ rawRecords = <<>>
    /\ transformedData.overview = EmptyObject
    /\ transformedData.deviations = DeviationsPlaceholder

-----------------------------------------------------------------------------
(* The section transformers called one at a time: SpecSections *)

\* an internal record with review dates and a cycle time, and an external
\* record whose error type is 'constructor'
SectionRecords ==
    {[source |-> "Internal", hasErrors |-> FALSE, cycleTime |-> 4,
      assembly_start |-> [k |-> "date", y |-> 2023, m |-> 1, d |-> 9],
      date_pci_l_a_br_review_date |-> [k |-> "date", y |-> 2023, m |-> 1, d |-> 10],
      date_nn_l_a_br_review_date |-> [k |-> "date", y |-> 2023, m |-> 1, d |-> 12]],
     [source |-> "External", hasErrors |-> TRUE,
      assembly_start |-> [k |-> "date", y |-> 2023, m |-> 2, d |-> 1],
      errorTypes |-> [kind |-> "arr", items |-> << <<"constructor">> >>]]}

\* a caller is about to call the five section transformers in an order of its
\* own choice
BeginSections ==
    /\ pending = {}
    /\ runs < MaxRuns
    /\ pending' = SectionNames
    /\ docBefore' = transformedData
    /\ threw' = {}
    /\ runs' = runs + 1
    /\ op' = "beginSections"
    /\ completion' = "return"
    /\ UNCHANGED <<dataState, loads, sourceFiles, outputFile, rawRecords, transformedData, fnArgs, fnResult>>

\* the call of one section transformer that has not been called in this run
CallSection(s) ==
    /\ s \in pending
    /\ transformedData' = RunSection(s, transformedData, rawRecords)
    /\ threw' = threw \cup ({s} \cap ThrowingSections(rawRecords))
    /\ pending' = pending \ {s}
    /\ op' = s
    /\ completion' = "return"
    /\ UNCHANGED <<dataState, loads, sourceFiles, outputFile, rawRecords, docBefore, runs, fnArgs, fnResult>>

NextSections ==
    \/ \E records \in Arrays(SectionRecords, MaxRecords) : SetRawData(records)
    \/ BeginSections
    \/ \E s \in SectionNames : CallSection(s)

SpecSections == Init /\ [][NextSections]_vars

\* the five section transformers have all been called, in some order
SectionsEnded == op \in SectionNames /\ pending = {}

\* C5: when the five section transformers have been called one after the
\* other in any order, the document is the one that the order of transformData
\* gives from the same document and the same records, and no call has thrown.
C5_SectionOrderIsIrrelevant ==
    SectionsEnded =>
        /\ completion = "return"
        /\ transformedData = transformSections(docBefore, rawRecords)

\* the overview transformer was called last, on an object that holds the
\* insights of an earlier run, over an internal and an external record whose
\* error type makes the insights transformer raise
C5_Witness ==
    /\ SectionsEnded /\ op = "overview" /\ runs = 2
    /\ Has(docBefore.insights, "recommendations")
    /\ InternalRecords(rawRecords) # <<>> /\ ExternalRecords(rawRecords) # <<>>
    /\ "insights" \in threw
    /\ Has(transformedData.externalRFT, "internalRFT")
    /\ transformedData.overview.totalRecords = Num(2)

-----------------------------------------------------------------------------
(* Runs over records that differ in their source tag: SpecSources *)

\* one record for every kind of source tag: the two internal tags, the
\* external tag, an unknown tag, and no tag at all
SourceRecords ==
    {[source |-> "Process", hasErrors |-> FALSE],
     [source |-> "Internal", hasErrors |-> FALSE],
     [source |-> "External", hasErrors |-> FALSE],
     [source |-> "Other", hasErrors |-> FALSE],
     [hasErrors |-> FALSE]}

NextSources ==
    \/ \E records \in Arrays(SourceRecords, MaxRecords) : SetRawData(records)
    \/ SetRawDataInvalid
    \/ TransformData

SpecSources == Init /\ [][NextSources]_vars

\* the positions of the records whose source tag is one of `tags'
TaggedWith(records, tags) ==
    {i \in 1..Len(records) : Has(records[i], "source") /\ records[i].source \in tags}

\* C6: a run counts in internalRFT exactly the records tagged 'Process' or
\* 'Internal' and in externalRFT exactly the records tagged 'External'; a
\* section for which the array has no record is not written at all, so a
\* record with another tag or none is counted in neither section, and the
\* counts of the run add up to at most overview.totalRecords.
C6_MembershipBySourceTag ==
    [][(IsRun /\ rawRecords # <<>>) =>
          LET internal == TaggedWith(rawRecords, {"Process", "Internal"})
              external == TaggedWith(rawRecords, {"External"})
              counted(section, tagged) ==
                  IF tagged # {} /\ Has(transformedData'[section], "recordCount")
                  THEN transformedData'[section].recordCount
                  ELSE Num(0)
          IN  /\ completion' = "return"
              /\ IF internal = {}
                 THEN transformedData'.internalRFT = transformedData.internalRFT
                 ELSE /\ Has(transformedData'.internalRFT, "recordCount")
                      /\ transformedData'.internalRFT.recordCount = Num(Cardinality(internal))
              /\ IF external = {}
                 THEN transformedData'.externalRFT = transformedData.externalRFT
                 ELSE /\ Has(transformedData'.externalRFT, "recordCount")
                      /\ transformedData'.externalRFT.recordCount = Num(Cardinality(external))
              /\ internal \cap external = {}
              /\ RLe(RAdd(counted("internalRFT", internal), counted("externalRFT", external)),
                     transformedData'.overview.totalRecords)]_vars

\* a run over a record tagged 'Process' and a record with an unknown tag: one
\* record is counted as internal, none as external, and two in total
C6_Witness ==
    /\ RunEnded /\ runs = 1
    /\ rawRecords = <<[source |-> "Process", hasErrors |-> FALSE],
                      [source |-> "Other", hasErrors |-> FALSE]>>
    /\ transformedData.internalRFT.recordCount = Num(1)
    /\ transformedData.externalRFT = EmptyObject
    /\ transformedData.overview.totalRecords = Num(2)

-----------------------------------------------------------------------------
(* Runs over records with pairs of timestamps: SpecDurations *)

\* an internal record whose packaging finishes two days before it starts, one
\* whose packaging takes three days, a record whose NN review is dated two
\* days before its PCI review, and one whose NN review comes two days after
DurationRecords ==
    {[source |-> "Internal", hasErrors |-> FALSE,
      packaging_start |-> [k |-> "date", y |-> 2023, m |-> 1, d |-> 5],
      packaging_finish |-> [k |-> "date", y |-> 2023, m |-> 1, d |-> 3]],
     [source |-> "Internal", hasErrors |-> FALSE,
      packaging_start |-> [k |-> "date", y |-> 2023, m |-> 1, d |-> 1],
      packaging_finish |-> [k |-> "date", y |-> 2023, m |-> 1, d |-> 4]],
     [hasErrors |-> FALSE,
      date_pci_l_a_br_review_date |-> [k |-> "date", y |-> 2023, m |-> 1, d |-> 5],
      date_nn_l_a_br_review_date |-> [k |-> "date", y |-> 2023, m |-> 1, d |-> 3]],
     [hasErrors |-> FALSE,
      date_pci_l_a_br_review_date |-> [k |-> "date", y |-> 2023, m |-> 1, d |-> 1],
      date_nn_l_a_br_review_date |-> [k |-> "date", y |-> 2023, m |-> 1, d |-> 3]]}

NextDurations ==
    \/ \E records \in Arrays(DurationRecords, MaxRecords) : SetRawData(records)
    \/ SetRawDataInvalid
    \/ TransformData

SpecDurations == Init /\ [][NextDurations]_vars

\* the packaging durations of the records that are not negative
NonNegativePackagingDurations(records) ==
    SelectSeq(Concat(Map(PackagingDuration, SelectSeq(records, HasPackagingDates))),
              LAMBDA days : RGe(days, Num(0)))

\* C7: after a run, in every section that the run has written, the durations
\* behind a statistic are the non-negative ones only: the smallest
\* nnReviewTime is not negative, the packaging average cycle time is the
\* average of the non-negative packaging durations of the internal records,
\* and no stage of the bottleneck analysis has a negative smallest duration.
C7_NegativeDurationsDiscarded ==
    RunEnded =>
        /\ ProcessRecords(rawRecords) # <<>> =>
               RGe(transformedData.processMetrics.timeMetricsStats.nnReviewTime.min, Num(0))
        /\ InternalRecords(rawRecords) # <<>> =>
               transformedData.internalRFT.processComparison.packaging.avgCycleTime
                   = Average(NonNegativePackagingDurations(InternalRecords(rawRecords)))
        /\ rawRecords # <<>> =>
               \A i \in 1..Len(transformedData.insights.bottleneckAnalysis.stages) :
                   RGe(transformedData.insights.bottleneckAnalysis.stages[i].minDuration, Num(0))

-----------------------------------------------------------------------------
(* calculateRFTRate applied on its own: SpecRFTRate *)

MaxRateRecords == 4

\* a record with the error flag set, one with the flag cleared, and one
\* without the flag
RateRecords == {[hasErrors |-> TRUE], [hasErrors |-> FALSE], [batchId |-> "B1"]}

InitRFTRate ==
    /\ rawRecords = <<>>
    /\ transformedData = InitialDocument
    /\ op = "constructor"
    /\ completion = "return"
    /\ threw = {}
    /\ docBefore = InitialDocument
    /\ runs = 0
    /\ pending = {}
    /\ sourceFiles = NoFiles
    /\ outputFile = NoFiles
    /\ dataState = NotRendered
    /\ loads = <<>>
    /\ fnArgs \in {[name |-> "calculateRFTRate", records |-> records] :
                       records \in Arrays(RateRecords, MaxRateRecords)}
                  \cup {[name |-> "calculateRFTRate"]}
    /\ fnResult = NoFunction

\* the list that calculateRFTRate sees: !records holds of an absent argument
\* as records.length === 0 holds of an empty array
RateArgument == IF Has(fnArgs, "records") THEN fnArgs.records ELSE <<>>

\* calculateRFTRate(records), or calculateRFTRate() without an argument
CallCalculateRFTRate ==
    /\ fnArgs.name = "calculateRFTRate"
    /\ fnResult = NoFunction
    /\ fnResult' = [name |-> "calculateRFTRate", value |-> calculateRFTRate(RateArgument)]
    /\ op' = "calculateRFTRate"
    /\ completion' = "return"
    /\ UNCHANGED <<dataState, loads, sourceFiles, outputFile, rawRecords, transformedData, threw, docBefore, runs, pending, fnArgs>>

NextRFTRate == CallCalculateRFTRate

SpecRFTRate == InitRFTRate /\ [][NextRFTRate]_vars

\* the positions of the records whose error flag is not set
Passing(records) == {i \in 1..Len(records) : ~HasErrors(records[i])}

\* C8: calculateRFTRate returns 0 for an empty or absent list, a value from
\* 0 to 100 for a list that is not empty, exactly 100 when no record has the
\* error flag set, and always 100 times the number of records without the
\* flag divided by the number of records.
C8_RFTRateIsPassingPercentage ==
    fnResult.name = "calculateRFTRate" =>
        LET records == RateArgument
            rate == fnResult.value
        IN  /\ ~Has(fnArgs, "records") => rate = Num(0)
            /\ records = <<>> => rate = Num(0)
            /\ records # <<>> =>
                   /\ RGe(rate, Num(0)) /\ RLe(rate, Num(100))
                   /\ Cardinality(Passing(records)) = Len(records) => rate = Num(100)
                   /\ rate = Rat(100 * Cardinality(Passing(records)), Len(records))

\* the rate of three records of which one has the error flag set, one has it
\* cleared and one has none: two thirds of 100
C8_Witness ==
    /\ fnResult.name = "calculateRFTRate"
    /\ RateArgument = <<[hasErrors |-> TRUE], [hasErrors |-> FALSE], [batchId |-> "B1"]>>
    /\ fnResult.value = [n |-> 200, d |-> 3]

-----------------------------------------------------------------------------
(* Runs over internal records that pass or fail: SpecInternalRate *)

MaxInternalRecords == 3

\* an internal record without errors, a record tagged 'Process' with errors,
\* and a record with errors that has no source tag
InternalRateRecords ==
    {[source |-> "Internal", hasErrors |-> FALSE],
     [source |-> "Process", hasErrors |-> TRUE],
     [hasErrors |-> TRUE]}

NextInternalRate ==
    \/ \E records \in Arrays(InternalRateRecords, MaxInternalRecords) : SetRawData(records)
    \/ SetRawDataInvalid
    \/ TransformData

SpecInternalRate == Init /\ [][NextInternalRate]_vars

\* C9: after a run over an array with at least one internal record,
\* internalRFT.recordCount is the number of records tagged 'Process' or
\* 'Internal' and internalRFT.internalRFT is the percentage of those records
\* whose error flag is not set; three internal records of which two pass give
\* the count 3 and a rate between 66.6 and 66.8.
C9_InternalRateOfInternalRecords ==
    LET internal == TaggedWith(rawRecords, {"Process", "Internal"})
        passing == internal \cap Passing(rawRecords)
        section == transformedData.internalRFT
    IN  (RunEnded /\ internal # {}) =>
            /\ completion = "return"
            /\ Has(section, "recordCount") /\ Has(section, "internalRFT")
            /\ section.recordCount = Num(Cardinality(internal))
            /\ section.internalRFT = Rat(100 * Cardinality(passing), Cardinality(internal))
            /\ (Cardinality(internal) = 3 /\ Cardinality(passing) = 2) =>
                   /\ section.recordCount = Num(3)
                   /\ RGe(section.internalRFT, Rat(666, 10))
                   /\ RLe(section.internalRFT, Rat(668, 10))

\* the second run of an object, over two passing internal records and a
\* failing one
C9_Witness ==
    /\ RunEnded /\ runs = 2
    /\ rawRecords = <<[source |-> "Internal", hasErrors |-> FALSE],
                      [source |-> "Process", hasErrors |-> TRUE],
                      [source |-> "Internal", hasErrors |-> FALSE]>>
    /\ transformedData.internalRFT.recordCount = Num(3)
    /\ transformedData.internalRFT.internalRFT = [n |-> 200, d |-> 3]

-----------------------------------------------------------------------------
(* analyzeErrorTypes applied on its own: SpecErrorTypes *)

MaxErrorRecords == 2

\* analyzeErrorTypes(records, topCount = 3)
DefaultTopCount == 3

\* the values given for topCount when it is given
TopCounts == {1, 2}

\* records with the error flag set whose error types are the string 'A, B',
\* the array ['A'], the array [' A'], the string 'B,, ' and the array
\* ['constructor'], and a record with the array ['B'] whose flag is cleared
ErrorTypeRecords ==
    {[hasErrors |-> TRUE, errorTypes |-> [kind |-> "str", text |-> <<"A", ",", " ", "B">>]],
     [hasErrors |-> TRUE, errorTypes |-> [kind |-> "arr", items |-> << <<"A">> >>]],
     [hasErrors |-> TRUE, errorTypes |-> [kind |-> "arr", items |-> << <<" ", "A">> >>]],
     [hasErrors |-> TRUE, errorTypes |-> [kind |-> "str", text |-> <<"B", ",", ",", " ">>]],
     [hasErrors |-> TRUE, errorTypes |-> [kind |-> "arr", items |-> << <<"constructor">> >>]],
     [hasErrors |-> FALSE, errorTypes |-> [kind |-> "arr", items |-> << <<"B">> >>]]}

InitErrorTypes ==
    /\ rawRecords = <<>>
    /\ transformedData = InitialDocument
    /\ op = "constructor"
    /\ completion = "return"
    /\ threw = {}
    /\ docBefore = InitialDocument
    /\ runs = 0
    /\ pending = {}
    /\ sourceFiles = NoFiles
    /\ outputFile = NoFiles
    /\ dataState = NotRendered
    /\ loads = <<>>
    /\ fnArgs \in {[name |-> "analyzeErrorTypes", records |-> records] :
                       records \in Arrays(ErrorTypeRecords, MaxErrorRecords)}
                  \cup {[name |-> "analyzeErrorTypes", records |-> records, topCount |-> k] :
                           records \in Arrays(ErrorTypeRecords, MaxErrorRecords),
                           k \in TopCounts}
    /\ fnResult = NoFunction

\* the value of the parameter topCount
TopCountArgument == IF Has(fnArgs, "topCount") THEN fnArgs.topCount ELSE DefaultTopCount

\* analyzeErrorTypes(records, topCount), or analyzeErrorTypes(records)
CallAnalyzeErrorTypes ==
    /\ fnArgs.name = "analyzeErrorTypes"
    /\ fnResult = NoFunction
    /\ fnResult' = [name |-> "analyzeErrorTypes",
                    value |-> analyzeErrorTypes(fnArgs.records, TopCountArgument)]
    /\ op' = "analyzeErrorTypes"
    /\ completion' = "return"
    /\ UNCHANGED <<dataState, loads, sourceFiles, outputFile, rawRecords, transformedData, threw, docBefore, runs, pending, fnArgs>>

NextErrorTypes == CallAnalyzeErrorTypes

SpecErrorTypes == InitErrorTypes /\ [][NextErrorTypes]_vars

\* the error types of a record as the claim normalises them: the elements of
\* the sequence, or the pieces of the comma-joined string, trimmed, without
\* the empty ones
NormalisedTypes(r) ==
    SelectSeq(Map(Trim, IF r.errorTypes.kind = "str" THEN Split(r.errorTypes.text)
                        ELSE r.errorTypes.items),
              LAMBDA type : type # <<>>)

AllNormalisedTypes(records) == Concat(Map(NormalisedTypes, records))

Occurrences(types, type) == Cardinality({i \in 1..Len(types) : types[i] = type})

\* C10: for records that all have the error flag set, the result of
\* analyzeErrorTypes has one entry for each of the topCount most frequent
\* normalised error types (for all of them if they are fewer), in
\* non-increasing order of count; the count of an entry is the number of
\* occurrences of its type over all the records and its percentage is that
\* count in hundredths of the number of all occurrences.
C10_CountsEveryNormalisedType ==
    (fnResult.name = "analyzeErrorTypes"
        /\ \A i \in 1..Len(fnArgs.records) : HasErrors(fnArgs.records[i])) =>
        LET types == AllNormalisedTypes(fnArgs.records)
            names == {types[i] : i \in 1..Len(types)}
            result == fnResult.value
            shown == {result[i].name : i \in 1..Len(result)}
        IN  /\ Len(result) = IF Cardinality(names) < TopCountArgument
                             THEN Cardinality(names) ELSE TopCountArgument
            /\ Cardinality(shown) = Len(result)
            /\ shown \subseteq names
            /\ \A i \in 1..Len(result) :
                   /\ result[i].count = Num(Occurrences(types, result[i].name))
                   /\ result[i].percentage =
                          Rat(100 * Occurrences(types, result[i].name), Len(types))
                   /\ \A j \in (i + 1)..Len(result) : RGe(result[i].count, result[j].count)
                   /\ \A type \in names \ shown :
                          Occurrences(types, type) <= Occurrences(types, result[i].name)

-----------------------------------------------------------------------------
(* Calls of one function with arguments drawn from a bounded set *)

\* the state before the call: a new object and the arguments of the call
InitFunction(arguments) ==
    /\ rawRecords = <<>>
    /\ transformedData = InitialDocument
    /\ op = "constructor"
    /\ completion = "return"
    /\ threw = {}
    /\ docBefore = InitialDocument
    /\ runs = 0
    /\ pending = {}
    /\ sourceFiles = NoFiles
    /\ outputFile = NoFiles
    /\ dataState = NotRendered
    /\ loads = <<>>
    /\ fnArgs \in arguments
    /\ fnResult = NoFunction

\* the call of the function `name` returns `value`
Returns(name, value) ==
    /\ fnArgs.name = name
    /\ fnResult = NoFunction
    /\ fnResult' = [name |-> name, value |-> value]
    /\ op' = name
    /\ completion' = "return"
    /\ UNCHANGED <<dataState, loads, sourceFiles, outputFile, rawRecords, transformedData, threw, docBefore, runs, pending, fnArgs>>

-----------------------------------------------------------------------------
(* groupRecordsByMonth as a function of its three arguments *)

MaxMonthRecords == 3

DefaultMonthCount == 12

MonthCounts == 0..2

MonthDateFields == {"assembly_start", "packaging_finish"}

MonthRecords ==
    {[assembly_start |-> [k |-> "date", y |-> 2023, m |-> 12, d |-> 30],
      packaging_finish |-> [k |-> "date", y |-> 2024, m |-> 1, d |-> 2]],
     [assembly_start |-> [k |-> "date", y |-> 2024, m |-> 1, d |-> 15],
      packaging_finish |-> [k |-> "NA"]],
     [assembly_start |-> [k |-> "date", y |-> 2024, m |-> 2, d |-> 1],
      packaging_finish |-> [k |-> "bad"]],
     [assembly_start |-> [k |-> "NA"],
      packaging_finish |-> [k |-> "date", y |-> 2024, m |-> 2, d |-> 3]],
     [assembly_start |-> [k |-> "bad"]]}

InitMonths ==
    InitFunction(
        {[name |-> "groupRecordsByMonth", records |-> records] :
             records \in Arrays(MonthRecords, MaxMonthRecords)}
        \cup {[name |-> "groupRecordsByMonth", records |-> records, dateField |-> f,
               monthCount |-> k] :
                 records \in Arrays(MonthRecords, MaxMonthRecords),
                 f \in MonthDateFields, k \in MonthCounts})

\* the values of the parameters dateField and monthCount
DateFieldArgument == IF Has(fnArgs, "dateField") THEN fnArgs.dateField ELSE "assembly_start"

MonthCountArgument == IF Has(fnArgs, "monthCount") THEN fnArgs.monthCount ELSE DefaultMonthCount

CallGroupRecordsByMonth ==
    Returns("groupRecordsByMonth",
            groupRecordsByMonth(fnArgs.records, DateFieldArgument, MonthCountArgument))

NextMonths == CallGroupRecordsByMonth

SpecMonths == InitMonths /\ [][NextMonths]_vars

\* the YYYY-MM keys present in the records: those of the records whose date
\* field holds a date
KeysPresent(records, dateField) ==
    {MonthKey(records[i][dateField]) :
        i \in {j \in 1..Len(records) : /\ Has(records[j], dateField)
                                        /\ records[j][dateField].k = "date"}}

\* the n largest elements of a set of keys (all of them when there are fewer)
Largest(S, n) == {k \in S : Cardinality({x \in S : x > k}) < n}

\* C11: for every record array, date field and limit, groupRecordsByMonth
\* returns at most limit month keys, and the returned keys are exactly the
\* largest limit keys among the YYYY-MM keys present in the records (all of
\* them when fewer than limit are present)
C11_AtMostLimitLatestMonths ==
    fnResult.name = "groupRecordsByMonth" =>
        LET months == {fnResult.value[i].month : i \in 1..Len(fnResult.value)}
        IN  /\ Len(fnResult.value) <= MonthCountArgument
            /\ months = Largest(KeysPresent(fnArgs.records, DateFieldArgument),
                                MonthCountArgument)

\* a call with limit 0 on records that have a month has returned
C11_ZeroLimitCall ==
    /\ fnResult.name = "groupRecordsByMonth"
    /\ MonthCountArgument = 0
    /\ KeysPresent(fnArgs.records, DateFieldArgument) # {}

\* the same property for the calls whose limit is at least 1
C11_PositiveLimitLatestMonths ==
    (fnResult.name = "groupRecordsByMonth" /\ MonthCountArgument >= 1) =>
        LET months == {fnResult.value[i].month : i \in 1..Len(fnResult.value)}
        IN  /\ Len(fnResult.value) <= MonthCountArgument
            /\ months = Largest(KeysPresent(fnArgs.records, DateFieldArgument),
                                MonthCountArgument)

-----------------------------------------------------------------------------
(* Runs over records with and without a usable assembly_start *)

DatedRecords ==
    {[hasErrors |-> TRUE, assembly_start |-> [k |-> "date", y |-> 2024, m |-> 1, d |-> 15]],
     [hasErrors |-> FALSE, assembly_start |-> [k |-> "date", y |-> 2024, m |-> 2, d |-> 1]],
     [hasErrors |-> TRUE, assembly_start |-> [k |-> "NA"]],
     [hasErrors |-> FALSE, assembly_start |-> [k |-> "bad"]],
     [hasErrors |-> FALSE]}

NextDated ==
    \/ \E records \in Arrays(DatedRecords, MaxRecords) : SetRawData(records)
    \/ SetRawDataInvalid
    \/ TransformData

SpecDated == Init /\ [][NextDated]_vars

\* the positions of the records whose assembly_start is a date of month key
HasMonth(records, key) ==
    {i \in 1..Len(records) : /\ Has(records[i], "assembly_start")
                             /\ records[i].assembly_start.k = "date"
                             /\ MonthKey(records[i].assembly_start) = key}

\* the positions of the records whose assembly_start is missing, 'N/A' or
\* unparseable
Undated(records) ==
    {i \in 1..Len(records) : \/ ~Has(records[i], "assembly_start")
                             \/ records[i].assembly_start.k # "date"}

\* C12: after a run over records, the records whose assembly_start is
\* missing, 'N/A' or unparseable are in no entry of overview.monthlyMetrics
\* (each entry counts exactly the records dated in its month), while
\* totalRecords, overallRFTRate and the Pass and Fail counts are taken over
\* all the records, so that the recordCounts of monthlyMetrics add up to
\* totalRecords minus the number of undated records, never to more than
\* totalRecords.
C12_UndatedRecordsOnlyInAggregates ==
    (RunEnded /\ rawRecords # <<>> /\ ~HasNullRecord(rawRecords)) =>
        LET overview == transformedData.overview
            total == Len(rawRecords)
            passing == Cardinality(Passing(rawRecords))
        IN  /\ Has(overview, "totalRecords") /\ overview.totalRecords = Num(total)
            /\ overview.overallRFTRate = Rat(100 * passing, total)
            /\ overview.rftPerformance =
                   <<[name |-> "Pass", value |-> Num(passing)],
                     [name |-> "Fail", value |-> Num(total - passing)]>>
            /\ \A i \in 1..Len(overview.monthlyMetrics) :
                   LET metric == overview.monthlyMetrics[i]
                   IN  /\ HasMonth(rawRecords, metric.month) # {}
                       /\ metric.recordCount =
                              Num(Cardinality(HasMonth(rawRecords, metric.month)))
            /\ RSum(Map(LAMBDA metric : metric.recordCount, overview.monthlyMetrics))
                   = Num(total - Cardinality(Undated(rawRecords)))
            /\ RLe(RSum(Map(LAMBDA metric : metric.recordCount, overview.monthlyMetrics)),
                   overview.totalRecords)

\* a second run over a dated and an unparseable record: one month entry of
\* one record, two records in the totals
C12_Witness ==
    /\ RunEnded /\ runs = 2
    /\ rawRecords = <<[hasErrors |-> FALSE, assembly_start |-> [k |-> "bad"]],
                      [hasErrors |-> TRUE,
                       assembly_start |-> [k |-> "date", y |-> 2024, m |-> 1, d |-> 15]]>>
    /\ Len(transformedData.overview.monthlyMetrics) = 1
    /\ transformedData.overview.monthlyMetrics[1].recordCount = Num(1)
    /\ transformedData.overview.totalRecords = Num(2)
    /\ transformedData.overview.overallRFTRate = Num(50)

-----------------------------------------------------------------------------
(* calculateStatistics as a function of its argument *)

MaxStatValues == 3

\* numbers (typeof val === 'number'): NaN, the two infinities and finite ones
StatValues == {NaN, Infinity, NegInfinity, Num(0), Num(1), Num(4), Rat(-3, 2)}

InitStatistics ==
    InitFunction({[name |-> "calculateStatistics", data |-> data] :
                      data \in Arrays(StatValues, MaxStatValues)}
                 \cup {[name |-> "calculateStatistics"]})

\* !data || data.length === 0: a missing argument is treated as an empty array
DataArgument == IF Has(fnArgs, "data") THEN fnArgs.data ELSE <<>>

CallCalculateStatistics ==
    Returns("calculateStatistics", calculateStatistics(DataArgument))

NextStatistics == CallCalculateStatistics

SpecStatistics == InitStatistics /\ [][NextStatistics]_vars

\* the k-th smallest of the values at the positions I of data
KthSmallest(data, I, k) ==
    CHOOSE v \in {data[i] : i \in I} :
        /\ Cardinality({i \in I : RLt(data[i], v)}) < k
        /\ Cardinality({i \in I : RLe(data[i], v)}) >= k

\* the claimed properties of the statistics of the numeric entries of data
StatisticsInRange(data, stats) ==
    LET numeric == {i \in 1..Len(data) : ~IsNaN(data[i])}
        count == Cardinality(numeric)
    IN  IF numeric = {}
        THEN stats = [min |-> Num(0), max |-> Num(0), mean |-> Num(0), median |-> Num(0),
                      standardDeviation |-> SqrtOf(Num(0))]
        ELSE /\ RLe(stats.min, stats.median) /\ RLe(stats.median, stats.max)
             /\ RLe(stats.min, stats.mean) /\ RLe(stats.mean, stats.max)
             /\ stats.median =
                    IF count % 2 = 1
                    THEN KthSmallest(data, numeric, (count + 1) \div 2)
                    ELSE RDiv(RAdd(KthSmallest(data, numeric, count \div 2),
                                   KthSmallest(data, numeric, count \div 2 + 1)), Num(2))

\* C13: calculateStatistics returns min, max, mean, median and
\* standardDeviation 0 for an empty input or one with no numeric entry, and
\* for every other array min <= median <= max and min <= mean <= max, the
\* median being the middle element of the sorted numeric values for an odd
\* count and the average of the two middle elements for an even count
C13_StatisticsWithinRange ==
    fnResult.name = "calculateStatistics" => StatisticsInRange(DataArgument, fnResult.value)

\* the same property for the arrays whose numeric entries are all finite
C13_FiniteStatisticsWithinRange ==
    (/\ fnResult.name = "calculateStatistics"
     /\ \A i \in 1..Len(DataArgument) : IsNaN(DataArgument[i]) \/ IsFinite(DataArgument[i]))
        => StatisticsInRange(DataArgument, fnResult.value)

-----------------------------------------------------------------------------
(* calculateParetoData as a function of its argument *)

MaxParetoItems == 3

ParetoNames == {"A", "B"}

\* counts, zero included
ParetoValues == {Num(0), Num(1), Num(2), Num(3)}

InitPareto ==
    InitFunction({[name |-> "calculateParetoData", data |-> data] :
                      data \in Arrays([name : ParetoNames, value : ParetoValues],
                                      MaxParetoItems)})

CallCalculateParetoData ==
    Returns("calculateParetoData", calculateParetoData(fnArgs.data))

NextPareto == CallCalculateParetoData

SpecPareto == InitPareto /\ [][NextPareto]_vars

\* the claimed properties of a ranked list
ParetoRanked(ranked) ==
    /\ \A i \in 1..(Len(ranked) - 1) :
           /\ RGe(ranked[i].value, ranked[i + 1].value)
           /\ RLe(ranked[i].cumulativePercentage, ranked[i + 1].cumulativePercentage)
    /\ ranked # <<>> => ranked[Len(ranked)].cumulativePercentage = Num(100)

\* C14: for every list of {name, value} items, calculateParetoData returns
\* the items in non-increasing order of value, with a cumulativePercentage
\* that is non-decreasing along the list and equals 100 on the last element
C14_ParetoCumulativeReaches100 ==
    fnResult.name = "calculateParetoData" =>
        /\ Len(fnResult.value) = Len(fnArgs.data)
        /\ ParetoRanked(fnResult.value)

\* the same property for the lists whose values do not add up to 0
C14_PositiveTotalReaches100 ==
    (/\ fnResult.name = "calculateParetoData"
     /\ \E i \in 1..Len(fnArgs.data) : fnArgs.data[i].value # Num(0))
        => ParetoRanked(fnResult.value)

-----------------------------------------------------------------------------
(* Runs over records that give monthly internal and external RFT series *)

\* the records of one source in one month of 2024: none, one failing record
\* (rate 0), a passing and a failing record (rate 50), one passing record
\* (rate 100)
MonthBlock(rate, source, month) ==
    LET record(failed) ==
            [source |-> source, hasErrors |-> failed,
             assembly_start |-> [k |-> "date", y |-> 2024, m |-> month, d |-> 10]]
    IN  CASE rate = "none" -> <<>>
          [] rate = "0" -> <<record(TRUE)>>
          [] rate = "50" -> <<record(FALSE), record(TRUE)>>
          [] rate = "100" -> <<record(FALSE)>>

\* monthly rates of one source from January on
LagSeries ==
    {<<"100", "50", "100", "50">>,
     <<"50", "100", "50", "100">>,
     <<"100", "100", "100", "100">>,
     <<"0", "50", "100", "none">>,
     <<"50", "100", "100", "none">>,
     <<"100", "50", "none", "none">>,
     <<"none", "none", "none", "none">>}

\* the array of the records of an internal and an external series
SeriesRecords(internal, external) ==
    Concat([month \in 1..Len(internal) |->
               MonthBlock(internal[month], "Internal", month)
               \o MonthBlock(external[month], "External", month)])

NextLag ==
    \/ \E internal \in LagSeries, external \in LagSeries :
           SetRawData(SeriesRecords(internal, external))
    \/ SetRawDataInvalid
    \/ TransformData

SpecLag == Init /\ [][NextLag]_vars

\* a run over records with an external record has ended: externalRFT is the
\* section of this run
ExternalRunEnded ==
    /\ RunEnded
    /\ \E i \in 1..Len(rawRecords) : rawRecords[i].source = "External"

\* the months of monthlyComparison that give a valid pair at a lag: both
\* the external rate of the month and the internal rate lag months before
\* are positive
ValidPairs(monthlyComparison, lag) ==
    {i \in 1..Len(monthlyComparison) :
        /\ i - lag >= 1
        /\ RGt(monthlyComparison[i].externalRFT, Num(0))
        /\ RGt(monthlyComparison[i - lag].internalRFT, Num(0))}

IdenticalSeries(monthlyComparison) ==
    \A i \in 1..Len(monthlyComparison) :
        monthlyComparison[i].internalRFT = monthlyComparison[i].externalRFT

PerfectCorrelation == [sign |-> 1, sq |-> Num(1)]

\* C16: when the internal and external monthly RFT series are identical over
\* at least 3 months, the correlation computed at lag 0 is 1, so
\* impactAnalysis reports a correlation of magnitude 1
C16_IdenticalSeriesCorrelateFully ==
    (/\ ExternalRunEnded
     /\ Len(transformedData.externalRFT.monthlyComparison) >= 3
     /\ IdenticalSeries(transformedData.externalRFT.monthlyComparison))
        => transformedData.externalRFT.impactAnalysis.correlation = PerfectCorrelation

\* C16 as amended: when the two series are identical, at least 3 months have
\* a positive rate and the rates of those months are not all equal, the
\* correlation computed at lag 0 is 1, so impactAnalysis reports a
\* correlation of magnitude 1
C16_VaryingIdenticalSeriesCorrelateFully ==
    LET monthlyComparison == transformedData.externalRFT.monthlyComparison
        valid == ValidPairs(monthlyComparison, 0)
    IN  (/\ ExternalRunEnded
         /\ IdenticalSeries(monthlyComparison)
         /\ Cardinality(valid) >= 3
         /\ \E i, j \in valid :
                monthlyComparison[i].externalRFT # monthlyComparison[j].externalRFT)
            => /\ LagCorrelation(monthlyComparison, 0) = PerfectCorrelation
               /\ transformedData.externalRFT.impactAnalysis.correlation.sq = Num(1)

\* a run over identical series 100, 50, 100, 50, whose correlation at lag 1
\* is -1
C16_Witness ==
    /\ ExternalRunEnded
    /\ rawRecords = SeriesRecords(<<"100", "50", "100", "50">>, <<"100", "50", "100", "50">>)
    /\ IdenticalSeries(transformedData.externalRFT.monthlyComparison)
    /\ transformedData.externalRFT.impactAnalysis.correlation = PerfectCorrelation
    /\ transformedData.externalRFT.impactAnalysis.lagTime = 0

-----------------------------------------------------------------------------
(* Runs over records with stage durations *)

MaxStageRecords == 5

\* three kinds of record with an assembly and a PCI review cycle time in days
StageRecordKinds ==
    <<[batchId |-> "a", hasErrors |-> FALSE,
       assembly_cycle_time |-> 1, pci_wip_review_cycle_time |-> 6],
      [batchId |-> "b", hasErrors |-> FALSE,
       assembly_cycle_time |-> 2, pci_wip_review_cycle_time |-> 1],
      [batchId |-> "c", hasErrors |-> FALSE,
       assembly_cycle_time |-> 6, pci_wip_review_cycle_time |-> 1]>>

Repeat(r, count) == [i \in 1..count |-> r]

\* the arrays with up to MaxStageRecords records: some of the first kind, then
\* some of the second, then some of the third
StageArrays ==
    {Repeat(StageRecordKinds[1], counts[1]) \o Repeat(StageRecordKinds[2], counts[2])
         \o Repeat(StageRecordKinds[3], counts[3]) :
        counts \in {c \in [1..3 -> 0..MaxStageRecords] : c[1] + c[2] + c[3] <= MaxStageRecords}}

NextStages ==
    \/ \E records \in StageArrays : SetRawData(records)
    \/ SetRawDataInvalid
    \/ TransformData

SpecStages == Init /\ [][NextStages]_vars

MeasuredStages ==
    <<[name |-> "Assembly", field |-> "assembly_cycle_time"],
      [name |-> "PCI Review", field |-> "pci_wip_review_cycle_time"]>>

\* the mean and the variance (the square of the standard deviation) of the
\* values of a field over the records
FieldMean(records, field) ==
    RDiv(RSum([i \in 1..Len(records) |-> Num(records[i][field])]), Num(Len(records)))

FieldVariance(records, field) ==
    RDiv(RSum([i \in 1..Len(records) |->
                  RMul(RSub(Num(records[i][field]), FieldMean(records, field)),
                       RSub(Num(records[i][field]), FieldMean(records, field)))]),
         Num(Len(records)))

\* value >= mean + 2 * sqrt(variance)
AtOrAboveThreshold(value, mean, variance) ==
    /\ RGe(value, mean)
    /\ RGe(RMul(RSub(value, mean), RSub(value, mean)), RMul(Num(4), variance))

\* C17: after a run, for each process stage a record is in
\* insights.bottleneckAnalysis.outliers iff its duration is at least the mean
\* plus twice the standard deviation of the durations of that stage (a
\* duration exactly at the threshold is in, a smaller one is out), and every
\* outlier carries that threshold
C17_OutlierBoundaryInclusive ==
    (RunEnded /\ rawRecords # <<>>) =>
        LET outliers == transformedData.insights.bottleneckAnalysis.outliers
        IN  /\ \A i \in 1..Len(outliers) :
                   \E s \in 1..Len(MeasuredStages) :
                       /\ outliers[i].stage = MeasuredStages[s].name
                       /\ outliers[i].threshold =
                              [base |-> FieldMean(rawRecords, MeasuredStages[s].field),
                               plusSqrtOf |->
                                   RMul(Num(4),
                                        FieldVariance(rawRecords, MeasuredStages[s].field))]
            /\ \A s \in 1..Len(MeasuredStages), k \in 1..Len(StageRecordKinds) :
                   LET field == MeasuredStages[s].field
                       kind == StageRecordKinds[k]
                       reported == {i \in 1..Len(outliers) :
                                       /\ outliers[i].stage = MeasuredStages[s].name
                                       /\ outliers[i].batchId = kind.batchId
                                       /\ outliers[i].duration = Num(kind[field])}
                       present == {i \in 1..Len(rawRecords) : rawRecords[i] = kind}
                   IN  Cardinality(reported) =
                           IF AtOrAboveThreshold(Num(kind[field]),
                                                 FieldMean(rawRecords, field),
                                                 FieldVariance(rawRecords, field))
                           THEN Cardinality(present)
                           ELSE 0

\* a second run over assembly times 1, 1, 1, 1, 6: the mean is 2 and the
\* standard deviation 2, so 6 is exactly at the threshold and is reported
C17_Witness ==
    /\ RunEnded /\ runs = 2
    /\ rawRecords = Repeat(StageRecordKinds[1], 4) \o <<StageRecordKinds[3]>>
    /\ \E i \in 1..Len(transformedData.insights.bottleneckAnalysis.outliers) :
           transformedData.insights.bottleneckAnalysis.outliers[i] =
               [batchId |-> "c", stage |-> "Assembly", duration |-> Num(6),
                threshold |-> [base |-> Num(2), plusSqrtOf |-> Num(16)]]

-----------------------------------------------------------------------------
(* ExcelProcessor (src/src/ExcelProcessor.js)                              *)
(*                                                                         *)
(*   - a workbook is [kind |-> "unreadable"] when xlsx.readFile throws,    *)
(*     else [kind |-> "rows", rows |-> the rows of its first sheet]        *)
(*   - a row is a function from column names to cells; text cells are      *)
(*     strings, Feedback is a sequence of characters, Duration an integer  *)
(*   - every row of the model has an ID and a Date, so the random id and   *)
(*     today's date that the code substitutes are never taken              *)
(*   - the string x.toFixed(1) is [fixed |-> the tenth nearest to x]       *)

\* row.Column || fallback for a text cell
TextCell(row, column, fallback) ==
    IF Has(row, column) /\ row[column] # "" THEN row[column] ELSE fallback

\* row.Duration || 0 and the like for a numeric cell
NumberCell(row, column) == IF Has(row, column) THEN Num(row[column]) ELSE Num(0)

\* row.Feedback || ''
FeedbackCell(row) == IF Has(row, "Feedback") THEN row.Feedback ELSE <<>>

\* x.toFixed(1), and parseFloat of such a string
Fixed1(q) == [fixed |-> ToFixed1(q)]

ParseFloat(text) == text.fixed

\* total > 0 ? (part / total * 100).toFixed(1) : '0.0'
RateText(part, total) ==
    IF total > 0 THEN Fixed1(RMul(RDiv(Num(part), Num(total)), Num(100)))
    ELSE Fixed1(Num(0))

CountStatus(records, status) == Len(SelectSeq(records, LAMBDA r : r.status = status))

\* Math.round and Math.floor of a finite number
MathFloor(q) == Num(q.n \div q.d)

MathRound(q) == MathFloor(RAdd(q, Rat(1, 2)))

\* names that an object literal inherits: groups[name] is truthy before any
\* record is grouped, and its records member is undefined, so push throws
InheritedNames == {"constructor"}

GroupingThrows(records, field) ==
    \E i \in 1..Len(records) : records[i][field] \in InheritedNames

\* Object.keys of the groups: the names that are not empty, by first occurrence
GroupNames(records, field) ==
    FirstOccurrences(SelectSeq([i \in 1..Len(records) |-> records[i][field]],
                               LAMBDA name : name # ""))

GroupRecords(records, field, name) == SelectSeq(records, LAMBDA r : r[field] = name)

\* new Date(a.date) - new Date(b.date) is negative
EarlierRecord(a, b) ==
    DateValid(a.date) /\ DateValid(b.date) /\ DayNumber(a.date) < DayNumber(b.date)

\* a variant whose first half takes the middle record of an odd number
determineTrend_first_half_rounded_up(records) ==
    IF Len(records) < 2 THEN "flat"
    ELSE LET sortedRecords == StableSort(EarlierRecord, records)
             half == (Len(sortedRecords) + 1) \div 2
             firstHalfCount == Len(FirstK(sortedRecords, half))
             secondHalfCount == Len(SubSeq(sortedRecords, half + 1, Len(sortedRecords)))
         IN  IF RGt(Num(secondHalfCount), RMul(Num(firstHalfCount), Rat(12, 10))) THEN "up"
             ELSE IF RLt(Num(secondHalfCount), RMul(Num(firstHalfCount), Rat(8, 10)))
             THEN "down"
             ELSE "flat"

determineTrend(records) ==
    IF Len(records) < 2 THEN "flat"
    ELSE LET sortedRecords == StableSort(EarlierRecord, records)
             half == Len(sortedRecords) \div 2
             firstHalfCount == Len(FirstK(sortedRecords, half))
             secondHalfCount == Len(SubSeq(sortedRecords, half + 1, Len(sortedRecords)))
         IN  IF RGt(Num(secondHalfCount), RMul(Num(firstHalfCount), Rat(12, 10))) THEN "up"
             ELSE IF RLt(Num(secondHalfCount), RMul(Num(firstHalfCount), Rat(8, 10)))
             THEN "down"
             ELSE "flat"

MoreFormErrors(a, b) == RGt(a.errors, b.errors)

analyzeFormErrors(records) ==
    StableSort(MoreFormErrors,
               Map(LAMBDA name :
                       [name |-> name,
                        errors |-> Num(Len(GroupRecords(records, "errorType", name))),
                        trend |-> determineTrend(GroupRecords(records, "errorType", name))],
                   GroupNames(records, "errorType")))

TrendMonths == <<"Jan", "Feb", "Mar", "Apr", "May", "Jun">>

TopFormCount == 3

\* Math.max(5, Math.min(30, formInfo.errors || 10))
BaseValue(errors) ==
    LET value == IF RTruthy(errors) THEN errors ELSE Num(10)
        capped == IF RLt(Num(30), value) THEN Num(30) ELSE value
    IN  IF RLt(capped, Num(5)) THEN Num(5) ELSE capped

\* monthIndex * 0.1, its opposite, or 0
TrendFactor(trend, monthIndex) ==
    IF trend = "up" THEN Rat(monthIndex, 10)
    ELSE IF trend = "down" THEN Rat(-monthIndex, 10)
    ELSE Num(0)

\* one object per month: month, and one member per top form (the members are
\* the sequence forms, in the order in which they are assigned)
generateMonthlyTrends(formErrors) ==
    LET topForms == FirstK(formErrors, TopFormCount)
    IN  [m \in 1..Len(TrendMonths) |->
            [month |-> TrendMonths[m],
             forms |-> Map(LAMBDA form :
                               [name |-> form.name,
                                value |-> MathRound(
                                    RMul(BaseValue(form.errors),
                                         RAdd(Num(1), TrendFactor(form.trend, m - 1))))],
                           topForms)]]


\* String.prototype.toLowerCase, one character at a time
UpperCase == <<"A", "B", "C", "D", "E", "F", "G", "H", "I", "J", "K", "L", "M",
               "N", "O", "P", "Q", "R", "S", "T", "U", "V", "W", "X", "Y", "Z">>

LowerCase == <<"a", "b", "c", "d", "e", "f", "g", "h", "i", "j", "k", "l", "m",
               "n", "o", "p", "q", "r", "s", "t", "u", "v", "w", "x", "y", "z">>

ToLowerCase(text) ==
    [i \in 1..Len(text) |->
        IF \E k \in 1..Len(UpperCase) : UpperCase[k] = text[i]
        THEN LowerCase[CHOOSE k \in 1..Len(UpperCase) : UpperCase[k] = text[i]]
        ELSE text[i]]

\* String.prototype.includes
Includes(text, word) ==
    \E i \in 1..(Len(text) - Len(word) + 1) : SubSeq(text, i, i + Len(word) - 1) = word

positiveWords ==
    {<<"g", "o", "o", "d">>, <<"g", "r", "e", "a", "t">>,
     <<"e", "x", "c", "e", "l", "l", "e", "n", "t">>,
     <<"s", "a", "t", "i", "s", "f", "i", "e", "d">>, <<"h", "a", "p", "p", "y">>,
     <<"r", "e", "s", "o", "l", "v", "e", "d">>, <<"t", "h", "a", "n", "k">>}

negativeWords ==
    {<<"b", "a", "d">>, <<"p", "o", "o", "r">>,
     <<"d", "i", "s", "a", "p", "p", "o", "i", "n", "t", "e", "d">>,
     <<"i", "s", "s", "u", "e">>, <<"p", "r", "o", "b", "l", "e", "m">>,
     <<"d", "e", "l", "a", "y">>, <<"f", "a", "i", "l">>}

Positive(feedback) == \E word \in positiveWords : Includes(ToLowerCase(feedback), word)

Negative(feedback) == \E word \in negativeWords : Includes(ToLowerCase(feedback), word)

\* a variant that looks for the words in the text as it was typed
determineSentiment_case_sensitive(records) ==
    LET Pos(text) == \E word \in positiveWords : Includes(text, word)
        Neg(text) == \E word \in negativeWords : Includes(text, word)
        positiveCount ==
            Len(SelectSeq(records, LAMBDA r : Pos(r.feedback) /\ ~Neg(r.feedback)))
        negativeCount ==
            Len(SelectSeq(records, LAMBDA r : Neg(r.feedback) /\ ~Pos(r.feedback)))
    IN  IF RGt(Num(positiveCount), RMul(Num(negativeCount), Rat(3, 2))) THEN "positive"
        ELSE IF negativeCount > positiveCount THEN "negative"
        ELSE "neutral"

determineSentiment(records) ==
    LET positiveCount ==
            Len(SelectSeq(records, LAMBDA r : Positive(r.feedback) /\ ~Negative(r.feedback)))
        negativeCount ==
            Len(SelectSeq(records, LAMBDA r : Negative(r.feedback) /\ ~Positive(r.feedback)))
    IN  IF RGt(Num(positiveCount), RMul(Num(negativeCount), Rat(3, 2))) THEN "positive"
        ELSE IF negativeCount > positiveCount THEN "negative"
        ELSE "neutral"

MoreComments(a, b) == RGt(a.count, b.count)

analyzeCustomerComments(records) ==
    StableSort(MoreComments,
               Map(LAMBDA name :
                       [name |-> name,
                        count |-> Num(Len(GroupRecords(records, "issueType", name))),
                        sentiment |-> determineSentiment(GroupRecords(records, "issueType", name))],
                   GroupNames(records, "issueType")))

analyzeProcessFlow(records) ==
    Map(LAMBDA name :
            LET group == GroupRecords(records, "stage", name)
                totalDuration == RSum(Map(LAMBDA r : r.duration, group))
                deviations == Len(SelectSeq(group, LAMBDA r : r.deviation))
            IN  [name |-> name,
                 count |-> Num(Len(group)),
                 avgDuration |-> MathRound(RDiv(totalDuration, Num(Len(group)))),
                 deviationRate |-> RateText(deviations, Len(group))],
        GroupNames(records, "stage"))

Unreadable == [kind |-> "unreadable"]

Workbook(rows) == [kind |-> "rows", rows |-> rows]

InternalRecord(row) ==
    [id |-> row.ID, date |-> row.Date,
     lot |-> TextCell(row, "Lot", ""), product |-> TextCell(row, "Product", ""),
     department |-> TextCell(row, "Department", ""),
     errorType |-> TextCell(row, "ErrorType", ""),
     status |-> TextCell(row, "Status", "Pending"), impact |-> TextCell(row, "Impact", "Low"),
     timeToResolution |-> NumberCell(row, "TimeToResolution"),
     comments |-> TextCell(row, "Comments", "")]

InternalPlaceholder ==
    [records |-> <<>>,
     summary |-> [totalRecords |-> Num(0), passingRecords |-> Num(0),
                  failingRecords |-> Num(0), rftRate |-> Fixed1(Num(0))],
     formErrors |-> <<>>, formErrorTrends |-> <<>>,
     insights |-> <<"Error processing Internal RFT data">>]

processInternalRft(file) ==
    LET records == Map(InternalRecord, file.rows)
        formErrors == analyzeFormErrors(records)
    IN  IF file = Unreadable THEN InternalPlaceholder
        ELSE IF GroupingThrows(records, "errorType") THEN InternalPlaceholder
        ELSE [records |-> records,
              summary |-> [totalRecords |-> Num(Len(records)),
                           passingRecords |-> Num(CountStatus(records, "Passed")),
                           failingRecords |-> Num(CountStatus(records, "Failed")),
                           rftRate |-> RateText(CountStatus(records, "Passed"), Len(records))],
              formErrors |-> formErrors,
              formErrorTrends |-> generateMonthlyTrends(formErrors),
              insights |-> <<"Production records show the highest error rate at 23%",
                             "Batch release forms have improved by 12% this quarter",
                             "Morning shift has 30% more errors than evening shift">>]

ExternalRecord(row) ==
    [id |-> row.ID, date |-> row.Date,
     lot |-> TextCell(row, "Lot", ""), customer |-> TextCell(row, "Customer", ""),
     product |-> TextCell(row, "Product", ""), issueType |-> TextCell(row, "IssueType", ""),
     status |-> TextCell(row, "Status", "Open"), severity |-> TextCell(row, "Severity", "Low"),
     resolutionTime |-> NumberCell(row, "ResolutionTime"),
     feedback |-> FeedbackCell(row)]

ExternalPlaceholder ==
    [records |-> <<>>,
     summary |-> [totalComplaints |-> Num(0), resolvedComplaints |-> Num(0),
                  pendingComplaints |-> Num(0), resolutionRate |-> Fixed1(Num(0))],
     customerComments |-> <<>>,
     insights |-> <<"Error processing External RFT data">>]

processExternalRft(file) ==
    LET records == Map(ExternalRecord, file.rows)
    IN  IF file = Unreadable THEN ExternalPlaceholder
        ELSE IF GroupingThrows(records, "issueType") THEN ExternalPlaceholder
        ELSE [records |-> records,
              summary |-> [totalComplaints |-> Num(Len(records)),
                           resolvedComplaints |-> Num(CountStatus(records, "Closed")),
                           pendingComplaints |-> Num(CountStatus(records, "Open")),
                           resolutionRate |->
                               RateText(CountStatus(records, "Closed"), Len(records))],
              customerComments |-> analyzeCustomerComments(records),
              insights |-> <<"Labeling issues constitute 45% of all customer complaints",
                             "Average resolution time has decreased by 20% this quarter",
                             "Customer satisfaction rate for resolved issues is 87%">>]

CommercialRecord(row) ==
    [id |-> row.ID, date |-> row.Date,
     lot |-> TextCell(row, "Lot", ""), product |-> TextCell(row, "Product", ""),
     stage |-> TextCell(row, "Stage", ""), duration |-> NumberCell(row, "Duration"),
     status |-> TextCell(row, "Status", "In Progress"),
     deviation |-> (Has(row, "Deviation") /\ row.Deviation = "Yes"),
     comments |-> TextCell(row, "Comments", "")]

CommercialPlaceholder ==
    [records |-> <<>>,
     summary |-> [totalLots |-> Num(0), completedLots |-> Num(0), inProgressLots |-> Num(0),
                  onHoldLots |-> Num(0), completionRate |-> Fixed1(Num(0))],
     processFlow |-> <<>>,
     insights |-> <<"Error processing Commercial Process data">>]

processCommercialProcess(file) ==
    LET records == Map(CommercialRecord, file.rows)
    IN  IF file = Unreadable THEN CommercialPlaceholder
        ELSE IF GroupingThrows(records, "stage") THEN CommercialPlaceholder
        ELSE [records |-> records,
              summary |-> [totalLots |-> Num(Len(records)),
                           completedLots |-> Num(CountStatus(records, "Completed")),
                           inProgressLots |-> Num(CountStatus(records, "In Progress")),
                           onHoldLots |-> Num(CountStatus(records, "On Hold")),
                           completionRate |->
                               RateText(CountStatus(records, "Completed"), Len(records))],
              processFlow |-> analyzeProcessFlow(records),
              insights |-> <<"Quality control stage accounts for 40% of the total process time",
                             "Deviations occur most frequently during the filling stage",
                             "Process efficiency has improved by 15% since last quarter">>]


\* the weights of the overall RFT rate
InternalWeight_half == Rat(1, 2)

InternalWeight == Rat(4, 10)

ExternalWeight == Rat(3, 10)

CommercialWeight == Rat(3, 10)

\* parseFloat(text) || fallback
ParsedOr(text, fallback) == IF RTruthy(ParseFloat(text)) THEN ParseFloat(text) ELSE fallback

Lots(records) == {records[i].lot : i \in {j \in 1..Len(records) : records[j].lot # ""}}

SmallerOf(a, b) == IF RLt(b, a) THEN b ELSE a

generateOverview(internalRftData, externalRftData, commercialProcessData) ==
    LET internalRFT == ParsedOr(internalRftData.summary.rftRate, Num(0))
        \* 100 - parseFloat(resolutionRate) || 0
        externalRFT ==
            LET open == RSub(Num(100), ParseFloat(externalRftData.summary.resolutionRate))
            IN  IF RTruthy(open) THEN open ELSE Num(0)
        commercialRFT == ParsedOr(commercialProcessData.summary.completionRate, Num(0))
        overallRFT ==
            Fixed1(RAdd(RAdd(RMul(internalRFT, InternalWeight),
                             RMul(RSub(Num(100), externalRFT), ExternalWeight)),
                        RMul(commercialRFT, CommercialWeight)))
        baseRFT == ParsedOr(internalRftData.summary.rftRate, Num(90))
        baseLotRFT == ParsedOr(commercialProcessData.summary.completionRate, Num(85))
    IN  [stats |->
             [totalRecords |-> Num(Len(internalRftData.records) + Len(externalRftData.records)
                                   + Len(commercialProcessData.records)),
              totalLots |-> Num(Cardinality(Lots(internalRftData.records)
                                            \cup Lots(externalRftData.records)
                                            \cup Lots(commercialProcessData.records))),
              overallRFTRate |-> overallRFT],
         rftPerformance |->
             <<[name |-> "Passed", value |-> internalRftData.summary.passingRecords],
               [name |-> "Failed", value |-> internalRftData.summary.failingRecords]>>,
         issueDistribution |->
             <<[name |-> "Form Errors", value |-> internalRftData.summary.failingRecords],
               [name |-> "Customer Issues", value |-> externalRftData.summary.totalComplaints],
               [name |-> "Process Delays", value |-> commercialProcessData.summary.onHoldLots],
               [name |-> "Quality Concerns",
                value |-> MathFloor(RMul(internalRftData.summary.failingRecords,
                                         Rat(7, 10)))]>>,
         processTimeline |->
             [m \in 1..Len(TrendMonths) |->
                 [month |-> TrendMonths[m],
                  recordRFT |-> SmallerOf(Num(99), RAdd(baseRFT, Rat(m - 1, 2))),
                  lotRFT |-> SmallerOf(Num(98), RAdd(baseLotRFT, Rat(m - 1, 2)))]],
         lotQuality |->
             [pass |-> commercialProcessData.summary.completedLots,
              fail |-> RSub(commercialProcessData.summary.totalLots,
                            commercialProcessData.summary.completedLots),
              percentage |->
                  MathRound(ParsedOr(commercialProcessData.summary.completionRate, Num(90))),
              change |-> "+2.5"]]

\* new Date().toISOString(): the time of the call
Now == [k |-> "timestamp"]

\* a variant that counts the insights of the section
SourceFileEntry_counts_insights(name, data) ==
    [name |-> name, records |-> Num(Len(data.insights))]

\* { name: '... .xlsx', records: data.records.length }
SourceFileEntry(name, data) == [name |-> name, records |-> Num(Len(data.records))]

\* combinedData of processAll
combinedData(files) ==
    LET internalRftData == processInternalRft(files.internal)
        externalRftData == processExternalRft(files.external)
        commercialProcessData == processCommercialProcess(files.commercial)
    IN  [overview |-> generateOverview(internalRftData, externalRftData,
                                       commercialProcessData),
         internalRFT |-> internalRftData,
         externalRFT |-> externalRftData,
         commercialProcess |-> commercialProcessData,
         lastUpdated |-> Now,
         dataVersion |-> "1.0.0",
         dataSourceInfo |->
             [files |->
                  <<SourceFileEntry("Internal RFT.xlsx", internalRftData),
                    SourceFileEntry("External RFT.xlsx", externalRftData),
                    SourceFileEntry("Commercial Process.xlsx", commercialProcessData)>>]]

\* the content of the output file: none, a document as JSON text, or the
\* beginning of a JSON text (writeFileSync opens the file with the flag 'w',
\* which empties it, and then writes; an error of the write leaves what was
\* written until then)
Written(document) == [kind |-> "document", document |-> document]

Truncated == [kind |-> "truncated"]

\* processAll() whose writeFileSync succeeds
ProcessAll ==
    /\ fnArgs.name = "processAll"
    /\ fnResult = NoFunction
    /\ outputFile' = Written(combinedData(sourceFiles))
    /\ fnResult' = [name |-> "processAll", value |-> combinedData(sourceFiles)]
    /\ op' = "processAll"
    /\ completion' = "return"
    /\ UNCHANGED <<dataState, loads, rawRecords, transformedData, threw, docBefore, runs, pending, fnArgs,
                   sourceFiles>>

\* processAll() whose writeFileSync throws before the file is opened (the
\* directory is missing, or the file may not be written): the error is logged
\* and thrown again
ProcessAllOpenFails ==
    /\ fnArgs.name = "processAll"
    /\ fnResult = NoFunction
    /\ fnResult' = [name |-> "processAll"]
    /\ op' = "processAll"
    /\ completion' = "throw"
    /\ UNCHANGED <<dataState, loads, rawRecords, transformedData, threw, docBefore, runs, pending, fnArgs,
                   sourceFiles, outputFile>>

\* processAll() whose writeFileSync throws after the file was opened (the
\* disk is full, or the device fails)
ProcessAllWriteFails ==
    /\ fnArgs.name = "processAll"
    /\ fnResult = NoFunction
    /\ outputFile' = Truncated
    /\ fnResult' = [name |-> "processAll"]
    /\ op' = "processAll"
    /\ completion' = "throw"
    /\ UNCHANGED <<dataState, loads, rawRecords, transformedData, threw, docBefore, runs, pending, fnArgs,
                   sourceFiles>>


\* the rows of a sheet with one row per status, each with an ID and a Date;
\* columns holds the other cells of every row
StatusRows(statuses, columns) ==
    [i \in 1..Len(statuses) |->
        [ID |-> i, Date |-> [k |-> "date", y |-> 2024, m |-> 1, d |-> i], Status |-> statuses[i]]
        @@ columns]

InternalFiles ==
    {Unreadable,
     Workbook(<<>>),
     Workbook(StatusRows(Repeat("Passed", 9) \o <<"Failed">>,
                         [Lot |-> "L1", ErrorType |-> "Label"])),
     Workbook(StatusRows(<<"Passed", "Failed", "Passed">>, [Lot |-> "L2"])),
     Workbook(StatusRows(<<"", "Failed">>, [ErrorType |-> "constructor"]))}

ExternalFiles ==
    {Unreadable,
     Workbook(<<>>),
     Workbook(StatusRows(Repeat("Closed", 4) \o <<"Open">>,
                         [Lot |-> "L1", IssueType |-> "Labeling",
                          Feedback |-> <<"G", "o", "o", "d">>])),
     Workbook(StatusRows(<<"Closed", "Pending">>,
                         [IssueType |-> "Delivery",
                          Feedback |-> <<"d", "e", "l", "a", "y">>])),
     Workbook(StatusRows(<<"">>, [Lot |-> "L3"]))}

CommercialFiles ==
    {Unreadable,
     Workbook(<<>>),
     Workbook(StatusRows(Repeat("Completed", 19) \o <<"">>,
                         [Lot |-> "L1", Stage |-> "Filling", Duration |-> 3,
                          Deviation |-> "No"])),
     Workbook(StatusRows(<<"Completed", "On Hold">>,
                         [Stage |-> "QC", Duration |-> 2, Deviation |-> "Yes"]))}

\* the output file before the call: none, or the document of an earlier run
\* that could read no workbook
EarlierOutput ==
    Written(combinedData([internal |-> Unreadable, external |-> Unreadable,
                          commercial |-> Unreadable]))

InitProcessAll ==
    /\ rawRecords = <<>>
    /\ transformedData = InitialDocument
    /\ op = "constructor"
    /\ completion = "return"
    /\ threw = {}
    /\ docBefore = InitialDocument
    /\ runs = 0
    /\ pending = {}
    /\ sourceFiles \in [internal : InternalFiles, external : ExternalFiles,
                        commercial : CommercialFiles]
    /\ outputFile \in {NoFiles, EarlierOutput}
    /\ dataState = NotRendered
    /\ loads = <<>>
    /\ fnArgs = [name |-> "processAll"]
    /\ fnResult = NoFunction

NextProcessAll ==
    \/ ProcessAll
    \/ ProcessAllOpenFails
    \/ ProcessAllWriteFails

SpecProcessAll == InitProcessAll /\ [][NextProcessAll]_vars

\* processAll has returned a document
Returned == op = "processAll" /\ completion = "return"

\* the percentage of the records with a status (0 when there is no record)
StatusPercentage(records, status) ==
    IF records = <<>> THEN Num(0)
    ELSE Rat(100 * Cardinality({i \in 1..Len(records) : records[i].status = status}),
             Len(records))

\* |a - b| <= tolerance
Within(a, b, tolerance) == RLe(RSub(a, b), tolerance) /\ RLe(RSub(b, a), tolerance)

\* 0.4 * internal + 0.3 * (100 - open) + 0.3 * completion
WeightedRFT(internal, open, completed) ==
    RAdd(RAdd(RMul(Rat(4, 10), internal), RMul(Rat(3, 10), RSub(Num(100), open))),
         RMul(Rat(3, 10), completed))

\* C18: the overall RFT rate of the overview is the weighted sum 0.4 *
\* internal RFT rate + 0.3 * (100 - external open rate) + 0.3 * commercial
\* completion rate, where the external open rate is the percentage of
\* external records whose status is 'Open' (stated for a document with
\* external records; the sum is compared with a tolerance of a tenth, for the
\* one decimal of the rates and of the result)
C18_WeightedSumWithOpenStatusRate ==
    Returned /\ fnResult.value.externalRFT.records # <<>> =>
        LET document == fnResult.value
        IN  Within(ParseFloat(document.overview.stats.overallRFTRate),
                   WeightedRFT(StatusPercentage(document.internalRFT.records, "Passed"),
                               StatusPercentage(document.externalRFT.records, "Open"),
                               StatusPercentage(document.commercialProcess.records,
                                                "Completed")),
                   Rat(1, 10))

\* C18 as amended: the external open rate is 100 minus the resolution rate,
\* the percentage of external records whose status is 'Closed'; the three
\* rates are those of the section summaries, each the percentage rounded to
\* one decimal, and the sum is rounded to one decimal
C18_WeightedSumWithUnresolvedRate ==
    Returned =>
        LET document == fnResult.value
            internal == ParseFloat(document.internalRFT.summary.rftRate)
            resolution == ParseFloat(document.externalRFT.summary.resolutionRate)
            completed == ParseFloat(document.commercialProcess.summary.completionRate)
        IN  /\ Within(internal, StatusPercentage(document.internalRFT.records, "Passed"),
                      Rat(1, 20))
            /\ Within(resolution, StatusPercentage(document.externalRFT.records, "Closed"),
                      Rat(1, 20))
            /\ Within(completed,
                      StatusPercentage(document.commercialProcess.records, "Completed"),
                      Rat(1, 20))
            /\ Within(ParseFloat(document.overview.stats.overallRFTRate),
                      WeightedRFT(internal, RSub(Num(100), resolution), completed),
                      Rat(1, 20))

\* internal 90, open rate 20 and completion 95 give '88.5'
C18_Witness ==
    /\ Returned
    /\ fnResult.value.internalRFT.summary.rftRate = Fixed1(Num(90))
    /\ fnResult.value.externalRFT.summary.resolutionRate = Fixed1(Num(80))
    /\ fnResult.value.commercialProcess.summary.completionRate = Fixed1(Num(95))
    /\ fnResult.value.overview.stats.overallRFTRate = [fixed |-> Rat(885, 10)]


\* C19: dataSourceInfo.files has one entry per source file, whose records
\* value is the length of the records array of that section, and the
\* totalRecords of the overview is the sum of the three lengths
C19_FileEntriesCountSectionRecords ==
    Returned =>
        LET document == fnResult.value
            files == document.dataSourceInfo.files
        IN  /\ Len(files) = 3
            /\ files[1] = [name |-> "Internal RFT.xlsx",
                           records |-> Num(Len(document.internalRFT.records))]
            /\ files[2] = [name |-> "External RFT.xlsx",
                           records |-> Num(Len(document.externalRFT.records))]
            /\ files[3] = [name |-> "Commercial Process.xlsx",
                           records |-> Num(Len(document.commercialProcess.records))]
            /\ document.overview.stats.totalRecords =
                   Num(Len(document.internalRFT.records)
                       + Len(document.externalRFT.records)
                       + Len(document.commercialProcess.records))

\* a document of three sections of different lengths, one of them the
\* placeholder of an unreadable workbook
C19_Witness ==
    /\ Returned
    /\ sourceFiles.external = Unreadable
    /\ Len(fnResult.value.internalRFT.records) = 10
    /\ Len(fnResult.value.commercialProcess.records) = 2
    /\ fnResult.value.dataSourceInfo.files[2].records = Num(0)
    /\ fnResult.value.overview.stats.totalRecords = Num(12)

\* the seven keys of the document
DocumentKeys ==
    {"overview", "internalRFT", "externalRFT", "commercialProcess", "lastUpdated",
     "dataVersion", "dataSourceInfo"}

\* the section of a workbook that could not be read holds no record
PlaceholderFor(file, section) == file = Unreadable => section.records = <<>>

\* C20: processAll never produces a partial document: whichever workbooks
\* cannot be read, a call either writes and returns a document with all seven
\* keys, the unreadable workbooks as sections of no record, or throws and
\* writes nothing
C20_NoPartialDocument ==
    [][op' = "processAll" =>
          \/ /\ completion' = "return"
             /\ DOMAIN fnResult'.value = DocumentKeys
             /\ outputFile' = Written(fnResult'.value)
             /\ PlaceholderFor(sourceFiles.internal, fnResult'.value.internalRFT)
             /\ PlaceholderFor(sourceFiles.external, fnResult'.value.externalRFT)
             /\ PlaceholderFor(sourceFiles.commercial, fnResult'.value.commercialProcess)
          \/ /\ completion' = "throw"
             /\ outputFile' = outputFile]_vars

-----------------------------------------------------------------------------
(* validateRecord *)

\* the values of the required fields of the records that are validated:
\* batchId holds a string; assembly_start holds the empty string
\* [k |-> "empty"], 'N/A', 'unknown', a date, or another text, which has the
\* shape YYYY-MM-DD... (as '2024-99-99') when its field pattern is TRUE
EmptyText == [k |-> "empty"]

UnknownText == [k |-> "unknown"]

\* !record[field] || record[field] === '' || record[field] === 'N/A' ||
\* record[field] === 'unknown'
FieldMissing(record, field) ==
    \/ ~Has(record, field)
    \/ field = "batchId" /\ record[field] \in {"", "N/A", "unknown"}
    \/ field = "assembly_start" /\ record[field] \in {EmptyText, [k |-> "NA"], UnknownText}

\* /^\d{4}-\d{2}-\d{2}/.test(value)
StartsWithDate(value) ==
    \/ value.k = "date"
    \/ value.k = "bad" /\ Has(value, "pattern") /\ value.pattern

MissingWarning(field) == [warning |-> "Missing or invalid required field", field |-> field]

FormatWarning(value) == [warning |-> "Invalid assembly_start date format", value |-> value]

requiredFields == <<"batchId", "assembly_start">>

\* a variant that tests the format only of a field that raised no warning
validateRecord_formats_unflagged_field(record) ==
    LET missing == SelectSeq(requiredFields, LAMBDA field : FieldMissing(record, field))
        warnings ==
            Map(MissingWarning, missing)
            \o (IF /\ ~FieldMissing(record, "assembly_start")
                   /\ ~StartsWithDate(record.assembly_start)
                THEN <<FormatWarning(record.assembly_start)>>
                ELSE <<>>)
    IN  [isValid |-> Len(warnings) = 0, warnings |-> warnings]

\* validateRecord(record)
validateRecord(record) ==
    LET missing == SelectSeq(requiredFields, LAMBDA field : FieldMissing(record, field))
        warnings ==
            Map(MissingWarning, missing)
            \o (IF /\ Has(record, "assembly_start")
                   /\ record.assembly_start # EmptyText
                   /\ ~StartsWithDate(record.assembly_start)
                THEN <<FormatWarning(record.assembly_start)>>
                ELSE <<>>)
    IN  [isValid |-> Len(warnings) = 0, warnings |-> warnings]

\* validateRecord(record) on the object, whatever it holds
ValidateRecord(record) ==
    /\ pending = {}
    /\ fnArgs' = [name |-> "validateRecord", record |-> record]
    /\ fnResult' = [name |-> "validateRecord", value |-> validateRecord(record)]
    /\ op' = "validateRecord"
    /\ completion' = "return"
    /\ UNCHANGED <<dataState, loads, sourceFiles, outputFile, rawRecords, transformedData, threw, docBefore, runs,
                   pending>>

MaxValidatedRecords == 2

\* the records that are stored: complete, without batchId, with an empty
\* batchId and a date in another format, with 'N/A' for the date
StoredRecords ==
    {[batchId |-> "B1", hasErrors |-> FALSE,
      assembly_start |-> [k |-> "date", y |-> 2024, m |-> 1, d |-> 15]],
     [hasErrors |-> TRUE, assembly_start |-> [k |-> "date", y |-> 2024, m |-> 2, d |-> 1]],
     [batchId |-> "", hasErrors |-> FALSE, assembly_start |-> [k |-> "bad"]],
     [batchId |-> "unknown", hasErrors |-> FALSE, assembly_start |-> [k |-> "NA"]]}

\* the records that are validated: the stored ones and records whose
\* assembly_start is empty, 'unknown', of the shape of a date, or absent
ValidatedRecords ==
    StoredRecords
    \cup {[batchId |-> "N/A", assembly_start |-> EmptyText],
          [batchId |-> "B2", assembly_start |-> UnknownText],
          [batchId |-> "B3", assembly_start |-> [k |-> "bad", pattern |-> TRUE]],
          [batchId |-> "B4"],
          [hasErrors |-> FALSE]}

NextValidate ==
    \/ \E records \in Arrays(StoredRecords, MaxValidatedRecords) : SetRawData(records)
    \/ SetRawDataInvalid
    \/ TransformData
    \/ \E record \in ValidatedRecords : ValidateRecord(record)

SpecValidate == Init /\ [][NextValidate]_vars

\* how many elements of s satisfy the test
CountOf(s, Test(_)) == Cardinality({i \in 1..Len(s) : Test(s[i])})

\* the field is missing, empty, 'N/A' or 'unknown'
Unusable(record, field) ==
    \/ field \notin DOMAIN record
    \/ field = "batchId" /\ record[field] \in {"", "N/A", "unknown"}
    \/ field = "assembly_start" /\ record[field].k \in {"empty", "NA", "unknown"}

\* the record has a non-empty assembly_start that does not start with
\* YYYY-MM-DD
Misformatted(record) ==
    /\ "assembly_start" \in DOMAIN record
    /\ record.assembly_start # EmptyText
    /\ ~(\/ record.assembly_start.k = "date"
         \/ record.assembly_start = [k |-> "bad", pattern |-> TRUE])

\* the record would produce a warning
Warned(record) ==
    Unusable(record, "batchId") \/ Unusable(record, "assembly_start") \/ Misformatted(record)

\* C21: validateRecord gives one warning for each of batchId and
\* assembly_start that is missing, empty, 'N/A' or 'unknown', and one for an
\* assembly_start that does not start with YYYY-MM-DD, and no other warning;
\* isValid is true exactly when there is no warning; the call changes neither
\* the stored records nor the document; and a run of transformData over
\* records that produce warnings counts every one of them in
\* overview.totalRecords.
C21_WarnedNeverDropped ==
    [][/\ op' = "validateRecord" =>
              LET record == fnArgs'.record
                  result == fnResult'.value
                  warnings == result.warnings
              IN  /\ rawRecords' = rawRecords
                  /\ transformedData' = transformedData
                  /\ \A field \in {"batchId", "assembly_start"} :
                         CountOf(warnings, LAMBDA w : w = MissingWarning(field))
                             = (IF Unusable(record, field) THEN 1 ELSE 0)
                  /\ CountOf(warnings, LAMBDA w : Has(w, "value"))
                         = (IF Misformatted(record) THEN 1 ELSE 0)
                  /\ \A i \in 1..Len(warnings) :
                         \/ warnings[i] \in {MissingWarning("batchId"),
                                             MissingWarning("assembly_start")}
                         \/ warnings[i] = FormatWarning(record.assembly_start)
                  /\ result.isValid <=> warnings = <<>>
       /\ (op' = "transformData" /\ rawRecords # <<>>) =>
              /\ rawRecords' = rawRecords
              /\ transformedData'.overview.totalRecords = Num(Len(rawRecords))]_vars

\* a record with 'N/A' for the date and 'unknown' for the batch got three
\* warnings, is stored with a second record that gets a warning, and the run
\* counted both
C21_Witness ==
    /\ op = "transformData"
    /\ fnResult = [name |-> "validateRecord",
                   value |-> [isValid |-> FALSE,
                              warnings |-> <<MissingWarning("batchId"),
                                             MissingWarning("assembly_start"),
                                             FormatWarning([k |-> "NA"])>>]]
    /\ Len(rawRecords) = 2
    /\ fnArgs.record = rawRecords[1]
    /\ Warned(rawRecords[2])
    /\ transformedData.overview.totalRecords = Num(2)

-----------------------------------------------------------------------------
(* Runs over a history of months: overview.improvementSummary *)

\* the date of the first day of the i-th month, counted from January 2023
MonthOf(i) == [k |-> "date", y |-> 2023 + (i - 1) \div 12, m |-> ((i - 1) % 12) + 1, d |-> 1]

\* the record of month i in a period of a kind: every record with errors and
\* without cycle time; errors in the odd months and a cycle time of -2 days;
\* no errors and 4 days; errors in the even months and 6 days
PeriodKinds == {"errors", "negative", "steady", "slower"}

PeriodRecord(kind, i) ==
    IF kind = "errors" THEN [hasErrors |-> TRUE, assembly_start |-> MonthOf(i)]
    ELSE IF kind = "negative"
    THEN [hasErrors |-> (i % 2 = 1), total_cycle_time_days |-> -2, assembly_start |-> MonthOf(i)]
    ELSE IF kind = "steady"
    THEN [hasErrors |-> FALSE, cycleTime |-> 4, assembly_start |-> MonthOf(i)]
    ELSE [hasErrors |-> (i % 2 = 0), cycleTime |-> 6, assembly_start |-> MonthOf(i)]

\* one record for each of months months, the latest month first: the last 6
\* months of the kind recent, the 6 before them of the kind previous, and
\* any older month with errors and a cycle time of 100 days
History(months, previous, recent) ==
    [j \in 1..months |->
        LET i == months + 1 - j
        IN  IF i > months - 6 THEN PeriodRecord(recent, i)
            ELSE IF i > months - 12 THEN PeriodRecord(previous, i)
            ELSE [hasErrors |-> TRUE, cycleTime |-> 100, assembly_start |-> MonthOf(i)]]

HistoryLengths == {11, 12, 13}

Histories ==
    {History(months, previous, recent) :
        months \in HistoryLengths, previous \in PeriodKinds \ {"slower"},
        recent \in {"steady", "slower"}}

NextHistory ==
    \/ \E records \in Histories : SetRawData(records)
    \/ SetRawDataInvalid
    \/ TransformData

SpecHistory == Init /\ [][NextHistory]_vars

\* the records of s whose month key is in keys
InMonths(s, keys) == SelectSeq(s, LAMBDA r : MonthKey(r.assembly_start) \in keys)

\* the percentage of the records without errors
PassRate(s) == Rat(100 * Len(SelectSeq(s, LAMBDA r : ~r.hasErrors)), Len(s))

\* the mean of the cycle times of the records that have one (0 without any)
MeanCycleTime(s) ==
    LET timed == SelectSeq(s, LAMBDA r : Has(r, "cycleTime") \/ Has(r, "total_cycle_time_days"))
        days == [i \in 1..Len(timed) |->
                    IF Has(timed[i], "cycleTime") THEN Num(timed[i].cycleTime)
                    ELSE Num(timed[i].total_cycle_time_days)]
    IN  IF timed = <<>> THEN Num(0) ELSE RDiv(RSum(days), Num(Len(timed)))

\* (recent - previous) / previous * 100
PercentChange(recent, previous) == RMul(RDiv(RSub(recent, previous), previous), Num(100))

\* the summary that compares the 6 latest months of the records with the 6
\* before them, the change being 0 when Guarded(previous)
SummaryOf(records, Guarded(_)) ==
    LET keys == KeysPresent(records, "assembly_start")
        recent == InMonths(records, Largest(keys, 6))
        previous == InMonths(records, Largest(keys, 12) \ Largest(keys, 6))
        Change(new, old) == IF Guarded(old) THEN Num(0) ELSE PercentChange(new, old)
    IN  [recentRFT |-> PassRate(recent),
         previousRFT |-> PassRate(previous),
         rftChange |-> Change(PassRate(recent), PassRate(previous)),
         recentAvgCycleTime |-> MeanCycleTime(recent),
         previousAvgCycleTime |-> MeanCycleTime(previous),
         cycleTimeChange |-> Change(MeanCycleTime(recent), MeanCycleTime(previous))]

\* C22: a run produces overview.improvementSummary only when the records
\* have at least 12 months; it then compares the records of the 6 latest
\* months with those of the 6 before them, and rftChange and cycleTimeChange
\* are 0 whenever the value of the previous period is 0, otherwise
\* (recent - previous) / previous * 100
C22_SummaryOnlyWithTwelveMonths ==
    RunEnded /\ rawRecords # <<>> =>
        LET months == Cardinality(KeysPresent(rawRecords, "assembly_start"))
        IN  IF months >= 12
            THEN /\ Has(transformedData.overview, "improvementSummary")
                 /\ transformedData.overview.improvementSummary
                        = SummaryOf(rawRecords, LAMBDA previous : previous = Num(0))
            ELSE ~Has(transformedData.overview, "improvementSummary")

\* C22 as amended: a run over records of at least 12 months stores the
\* summary, in which a change is 0 whenever the value of the previous period
\* is not greater than 0; a run over records of fewer months leaves
\* overview.improvementSummary as it was before the run (absent when it was
\* absent)
C22_SummaryGuardedAndKept ==
    [][(op' = "transformData" /\ rawRecords # <<>>) =>
          LET months == Cardinality(KeysPresent(rawRecords, "assembly_start"))
              before == transformedData.overview
              after == transformedData'.overview
          IN  IF months >= 12
              THEN /\ Has(after, "improvementSummary")
                   /\ after.improvementSummary
                          = SummaryOf(rawRecords, LAMBDA previous : RLe(previous, Num(0)))
              ELSE /\ Has(after, "improvementSummary") <=> Has(before, "improvementSummary")
                   /\ Has(after, "improvementSummary") =>
                          after.improvementSummary = before.improvementSummary]_vars

\* a run over 13 months of which the oldest is left out: RFT from 50 to 100,
\* the previous mean cycle time is negative and the change is 0
C22_Witness ==
    /\ RunEnded
    /\ rawRecords = History(13, "negative", "steady")
    /\ transformedData.overview.improvementSummary
           = [recentRFT |-> Num(100), previousRFT |-> Num(50), rftChange |-> Num(100),
              recentAvgCycleTime |-> Num(4), previousAvgCycleTime |-> Num(-2),
              cycleTimeChange |-> Num(0)]

-----------------------------------------------------------------------------
(* analyzeCustomerComments and determineSentiment as functions of the records *)

MaxCommentRecords == 2

\* 'Good', 'bad', 'bad good', 'ok', 'FAILED' and no feedback
Feedbacks ==
    {<<"G", "o", "o", "d">>, <<"b", "a", "d">>, <<"b", "a", "d", " ", "g", "o", "o", "d">>,
     <<"o", "k">>, <<"F", "A", "I", "L", "E", "D">>, <<>>}

CommentRecords ==
    {[issueType |-> type, feedback |-> feedback] :
        type \in {"Labeling", "Delivery"}, feedback \in Feedbacks}

InitComments ==
    InitFunction([name : {"analyzeCustomerComments"},
                  records : Arrays(CommentRecords, MaxCommentRecords)])

CallAnalyzeCustomerComments ==
    Returns("analyzeCustomerComments", analyzeCustomerComments(fnArgs.records))

NextComments == CallAnalyzeCustomerComments

SpecComments == InitComments /\ [][NextComments]_vars

\* the lower-cased text contains one of the words
Mentions(text, words) == \E word \in words : Includes(ToLowerCase(text), word)

\* the records of the issue type
OfIssue(records, type) == SelectSeq(records, LAMBDA r : r.issueType = type)

\* C23: an issue group that holds a single feedback string is 'positive'
\* when the lower-cased text contains only positive keywords, 'negative' when
\* it contains only negative keywords, and 'neutral' when it contains both
\* or neither
C23_SingleFeedbackSentiment ==
    fnResult # NoFunction =>
        \A i \in 1..Len(fnResult.value) :
            LET group == OfIssue(fnArgs.records, fnResult.value[i].name)
                text == group[1].feedback
                positive == Mentions(text, positiveWords)
                negative == Mentions(text, negativeWords)
            IN  (Len(group) = 1 /\ text # <<>>) =>
                    fnResult.value[i].sentiment =
                        (IF positive /\ ~negative THEN "positive"
                         ELSE IF negative /\ ~positive THEN "negative"
                         ELSE "neutral")

\* two groups of one feedback each: 'Good' is positive and 'bad good' neutral
C23_Witness ==
    /\ fnResult # NoFunction
    /\ fnArgs.records = <<[issueType |-> "Labeling", feedback |-> <<"G", "o", "o", "d">>],
                          [issueType |-> "Delivery",
                           feedback |-> <<"b", "a", "d", " ", "g", "o", "o", "d">>]>>
    /\ fnResult.value = <<[name |-> "Labeling", count |-> Num(1), sentiment |-> "positive"],
                          [name |-> "Delivery", count |-> Num(1), sentiment |-> "neutral"]>>

-----------------------------------------------------------------------------
(* The recommendation tables of the insights dashboards *)

\* a string that a helper returns, and the property that a table object
\* inherits from Object.prototype under a name (a function, which is truthy)
Text(string) == [text |-> string]

Inherited(name) == [inherited |-> name]

\* recommendations[key] || fallback
Recommendation(recommendations, key, fallback) ==
    IF key \in DOMAIN recommendations THEN Text(recommendations[key])
    ELSE IF key \in InheritedNames THEN Inherited(key)
    ELSE Text(fallback)

FormRecommendations ==
    "Production Record" :> "Standardize production record format and implement digital templates"
    @@ "Batch Release" :> "Implement electronic batch release system with built-in validation"
    @@ "QC Checklist" :> "Redesign QC checklist with clear acceptance criteria"
    @@ "Material Transfer" :> "Introduce barcode scanning for material transfer documentation"
    @@ "Process Deviation" :> "Develop structured process deviation documentation workflow"

FormFallback == "Standardize documentation and implement quality checks"

getRecommendationForForm(formName) ==
    Recommendation(FormRecommendations, formName, FormFallback)

CustomerIssueRecommendations ==
    "Documentation" :>
        "Implement structured document review process with customer requirements focus"
    @@ "Quality" :> "Establish customer-specific quality acceptance criteria"
    @@ "Delivery" :> "Implement real-time shipment tracking and communication system"
    @@ "Packaging" :> "Review packaging specifications with customer input"
    @@ "Other" :> "Create systematic customer feedback collection and response process"

CustomerIssueFallback == "Develop customer-centric improvement program"

getRecommendationForCustomerIssue(category) ==
    Recommendation(CustomerIssueRecommendations, category, CustomerIssueFallback)

ProcessRecommendations ==
    "Bulk Receipt" :> "Implement automated material receipt and verification system"
    @@ "Assembly" :> "Apply SMED techniques to reduce setup times"
    @@ "PCI Review" :> "Implement electronic review system with automated checks"
    @@ "NN Review" :> "Establish parallel review workflow with real-time collaboration"
    @@ "Packaging" :> "Implement one-piece flow and visual management"
    @@ "Final Review" :> "Develop streamlined review checklist with critical focus areas"
    @@ "Release" :> "Implement automated release notification system"

ProcessFallback == "Apply lean methodologies to reduce process time"

getRecommendationForProcess(step) ==
    Recommendation(ProcessRecommendations, step, ProcessFallback)

ErrorRecommendations ==
    "Missing Signature" :> "Implement electronic signature system with validation"
    @@ "Incorrect Information" :> "Add validation checks in documentation process"
    @@ "Incomplete Form" :>
        "Create standardized form templates with required field validation"
    @@ "Late Submission" :> "Set up automated reminders for documentation deadlines"
    @@ "Illegible Entry" :> "Transition to electronic documentation system"

ErrorFallback == "Review and improve documentation process"

getRecommendationForError(errorType) ==
    Recommendation(ErrorRecommendations, errorType, ErrorFallback)

BottleneckRecommendations ==
    "pci-review" :> "Implement parallel review process for PCI"
    @@ "nn-review" :> "Standardize NN review checklist to reduce variation"
    @@ "wait-packaging" :> "Improve scheduling coordination between review and packaging"
    @@ "packaging" :> "Optimize packaging line setup and changeover procedures"

BottleneckFallback == "Analyze and optimize process flow"

getRecommendationForBottleneck(bottleneckStep) ==
    Recommendation(BottleneckRecommendations, bottleneckStep, BottleneckFallback)

\* the helper of the second dashboard (line 1002)
CustomerIssueRecommendationsAt1002 ==
    "Documentation" :>
        "Revise Certificate of Analysis format to highlight key test parameters"
    @@ "Quality Issues" :> "Implement additional inter-batch testing for consistency"
    @@ "Delivery Delays" :> "Deploy automated notifications for any shipping delays"
    @@ "Packaging Problems" :> "Enhance packaging quality checks and improve materials"
    @@ "Communication" :> "Establish dedicated customer communication protocol"

CustomerIssueFallbackAt1002 == "Analyze customer feedback and develop targeted improvements"

getRecommendationForCustomerIssueAt1002(category) ==
    Recommendation(CustomerIssueRecommendationsAt1002, category, CustomerIssueFallbackAt1002)

\* the helpers with their tables and fallbacks
RecommendationHelpers ==
    "getRecommendationForForm" :>
        [table |-> FormRecommendations, fallback |-> FormFallback]
    @@ "getRecommendationForCustomerIssue" :>
        [table |-> CustomerIssueRecommendations, fallback |-> CustomerIssueFallback]
    @@ "getRecommendationForProcess" :>
        [table |-> ProcessRecommendations, fallback |-> ProcessFallback]
    @@ "getRecommendationForError" :>
        [table |-> ErrorRecommendations, fallback |-> ErrorFallback]
    @@ "getRecommendationForBottleneck" :>
        [table |-> BottleneckRecommendations, fallback |-> BottleneckFallback]
    @@ "getRecommendationForCustomerIssueAt1002" :>
        [table |-> CustomerIssueRecommendationsAt1002, fallback |-> CustomerIssueFallbackAt1002]

\* the keys of the calls: every key of a table, the name of a form that is
\* in no table, the text of an undefined key, the empty string, and the name
\* of a property of Object.prototype
RecommendationKeys ==
    UNION {DOMAIN RecommendationHelpers[helper].table : helper \in DOMAIN RecommendationHelpers}
    \cup {"Label Check", "undefined", "", "constructor"}

InitRecommendations ==
    InitFunction([name : DOMAIN RecommendationHelpers, key : RecommendationKeys])

CallGetRecommendationForForm ==
    Returns("getRecommendationForForm", getRecommendationForForm(fnArgs.key))

CallGetRecommendationForCustomerIssue ==
    Returns("getRecommendationForCustomerIssue", getRecommendationForCustomerIssue(fnArgs.key))

CallGetRecommendationForProcess ==
    Returns("getRecommendationForProcess", getRecommendationForProcess(fnArgs.key))

CallGetRecommendationForError ==
    Returns("getRecommendationForError", getRecommendationForError(fnArgs.key))

CallGetRecommendationForBottleneck ==
    Returns("getRecommendationForBottleneck", getRecommendationForBottleneck(fnArgs.key))

CallGetRecommendationForCustomerIssueAt1002 ==
    Returns("getRecommendationForCustomerIssueAt1002",
            getRecommendationForCustomerIssueAt1002(fnArgs.key))

NextRecommendations ==
    \/ CallGetRecommendationForForm
    \/ CallGetRecommendationForCustomerIssue
    \/ CallGetRecommendationForProcess
    \/ CallGetRecommendationForError
    \/ CallGetRecommendationForBottleneck
    \/ CallGetRecommendationForCustomerIssueAt1002

SpecRecommendations == InitRecommendations /\ [][NextRecommendations]_vars

\* C24: each getRecommendationFor* helper returns the text that its table
\* maps to the key when the key is in the table, and its one fallback string
\* for every key that is not in the table
C24_LookupAlwaysFallsBack ==
    fnResult # NoFunction =>
        LET helper == RecommendationHelpers[fnResult.name]
        IN  IF fnArgs.key \in DOMAIN helper.table
            THEN fnResult.value = [text |-> helper.table[fnArgs.key]]
            ELSE fnResult.value = [text |-> helper.fallback]

-----------------------------------------------------------------------------
(* Runs over series whose lags tie or have no correlation *)

TieSeries ==
    {<<"50", "100", "50", "100">>,
     <<"100", "100", "100", "0">>,
     <<"0", "100", "100", "100">>,
     <<"50", "100", "100", "50">>,
     <<"100", "50", "100", "100">>}

NextTies ==
    \/ \E internal \in TieSeries, external \in TieSeries :
           SetRawData(SeriesRecords(internal, external))
    \/ SetRawDataInvalid
    \/ TransformData

SpecTies == Init /\ [][NextTies]_vars

\* the lags with at least 3 valid pairs
CandidateLags(monthlyComparison) ==
    {lag \in 0..3 : Cardinality(ValidPairs(monthlyComparison, lag)) >= 3}

\* the smallest of the lags whose correlation has the largest magnitude
SmallestStrongest(monthlyComparison, lags) ==
    CHOOSE lag \in lags :
        /\ \A other \in lags :
               RLe(LagCorrelation(monthlyComparison, other).sq,
                   LagCorrelation(monthlyComparison, lag).sq)
        /\ \A other \in lags :
               LagCorrelation(monthlyComparison, other).sq
                   = LagCorrelation(monthlyComparison, lag).sq => lag <= other

\* C25: among the lags 0..3 that have at least 3 valid pairs, the reported
\* lagTime is the smallest lag whose absolute correlation is maximal
C25_SmallestLagOfLargestMagnitude ==
    LET monthlyComparison == transformedData.externalRFT.monthlyComparison
        lags == CandidateLags(monthlyComparison)
    IN  (ExternalRunEnded /\ lags # {}) =>
            transformedData.externalRFT.impactAnalysis.lagTime
                = SmallestStrongest(monthlyComparison, lags)

\* C25 as amended: when a lag with at least 3 valid pairs has a correlation
\* other than 0, the reported lagTime is the smallest such lag whose absolute
\* correlation is maximal, with its correlation; when no lag with at least 3
\* valid pairs has a correlation other than 0, correlation and lagTime are 0
C25_SmallestLagOfLargestNonZeroMagnitude ==
    LET monthlyComparison == transformedData.externalRFT.monthlyComparison
        impactAnalysis == transformedData.externalRFT.impactAnalysis
        lags == {lag \in CandidateLags(monthlyComparison) :
                    LagCorrelation(monthlyComparison, lag).sq # Num(0)}
    IN  ExternalRunEnded =>
            IF lags # {}
            THEN /\ impactAnalysis.lagTime = SmallestStrongest(monthlyComparison, lags)
                 /\ impactAnalysis.correlation
                        = LagCorrelation(monthlyComparison, impactAnalysis.lagTime)
            ELSE /\ impactAnalysis.lagTime = 0
                 /\ impactAnalysis.correlation = ZeroCorrelation

\* the correlation of two alternating series is 1 at lag 0 and -1 at lag 1:
\* lag 0 is kept
C25_Witness ==
    LET monthlyComparison == transformedData.externalRFT.monthlyComparison
    IN  /\ ExternalRunEnded
        /\ {0, 1} \subseteq CandidateLags(monthlyComparison)
        /\ LagCorrelation(monthlyComparison, 0) = [sign |-> 1, sq |-> Num(1)]
        /\ LagCorrelation(monthlyComparison, 1) = [sign |-> -1, sq |-> Num(1)]
        /\ transformedData.externalRFT.impactAnalysis.lagTime = 0

-----------------------------------------------------------------------------
(* The arrays of the caller across calls of the engine *)

\* calculateStatistics filters data into numericData and sorts the copy
\* [...numericData]: data is left as it is
DataAfterCalculateStatistics_sorts_data(data) == StableSort(Smaller, data)

DataAfterCalculateStatistics(data) == data

\* calculateParetoData sorts the copy [...data] and maps it to new objects:
\* data and its items are left as they are
DataAfterCalculateParetoData(data) == data

MaxCallerValues == 2

CallerValues == {Num(4), Num(1)}

CallerItems == {[name |-> "A", value |-> Num(1)], [name |-> "B", value |-> Num(3)]}

\* the record arrays that are stored, the later month first
CallerRecords ==
    {<<[source |-> "External", hasErrors |-> TRUE,
        assembly_start |-> [k |-> "date", y |-> 2024, m |-> 2, d |-> 1]],
       [source |-> "Internal", hasErrors |-> FALSE,
        assembly_start |-> [k |-> "date", y |-> 2024, m |-> 1, d |-> 15]]>>,
     <<[hasErrors |-> FALSE]>>}

\* the caller holds an array of numbers and an array of named values
InitCaller ==
    InitFunction([name : {"caller"},
                  data : Arrays(CallerValues, MaxCallerValues),
                  items : Arrays(CallerItems, MaxCallerValues)])

\* calculateStatistics(data) with the caller's array of numbers
CalculateStatistics ==
    /\ pending = {}
    /\ fnResult' = [name |-> "calculateStatistics", value |-> calculateStatistics(fnArgs.data)]
    /\ fnArgs' = [fnArgs EXCEPT !.data = DataAfterCalculateStatistics(fnArgs.data)]
    /\ op' = "calculateStatistics"
    /\ completion' = "return"
    /\ UNCHANGED <<dataState, loads, sourceFiles, outputFile, rawRecords, transformedData, threw, docBefore, runs,
                   pending>>

\* calculateParetoData(items) with the caller's array of named values
CalculateParetoData ==
    /\ pending = {}
    /\ fnResult' = [name |-> "calculateParetoData", value |-> calculateParetoData(fnArgs.items)]
    /\ fnArgs' = [fnArgs EXCEPT !.items = DataAfterCalculateParetoData(fnArgs.items)]
    /\ op' = "calculateParetoData"
    /\ completion' = "return"
    /\ UNCHANGED <<dataState, loads, sourceFiles, outputFile, rawRecords, transformedData, threw, docBefore, runs,
                   pending>>

NextCaller ==
    \/ \E records \in CallerRecords : SetRawData(records)
    \/ SetRawDataInvalid
    \/ TransformData
    \/ CalculateStatistics
    \/ CalculateParetoData

SpecCaller == InitCaller /\ [][NextCaller]_vars

-----------------------------------------------------------------------------
(* The retrying loader of AppWithContext *)

MaxLoads == 2

\* fetchWithRetry(url, retries = 3, ...)
Retries == 3

\* fileStatus with its one entry
FileStatus(entry) == "complete-data.json" :> entry

\* useState({...})
InitialDataState ==
    [isLoading |-> TRUE, error |-> Null, data |-> Null, lastUpdated |-> Null,
     fileStatus |-> FileStatus([loaded |-> FALSE, status |-> "pending"])]

\* prev => ({...prev, isLoading: true, error: null, fileStatus: {...}})
LoadingState(prev) ==
    [prev EXCEPT !.isLoading = TRUE,
                 !.error = Null,
                 !.fileStatus = FileStatus([loaded |-> FALSE, status |-> "loading"])
                                @@ prev.fileStatus]

\* the state that is set when fetchWithRetry has returned jsonData
LoadedState(jsonData) ==
    [isLoading |-> FALSE, error |-> Null, data |-> jsonData, lastUpdated |-> Now,
     fileStatus |-> FileStatus([loaded |-> TRUE, status |-> "success"])]

\* the error of an attempt that failed: fetch rejected, the response was not
\* ok, or its body was not JSON
FetchError == [message |-> "Failed to load data"]

\* the state that is set when the fallback has failed too
FailedState(error, fallbackError) ==
    [isLoading |-> FALSE,
     error |-> [text |-> "Error loading data", error |-> error.message,
                fallback |-> fallbackError.message],
     data |-> Null, lastUpdated |-> Now,
     fileStatus |-> FileStatus([loaded |-> FALSE, status |-> "error",
                                error |-> error.message])]

\* the values that response.json() gives: a document, or the JSON text null
JsonDocument == [dataVersion |-> "1.0.0"]

JsonValues == {JsonDocument, Null}

InitLoader ==
    /\ rawRecords = <<>>
    /\ transformedData = InitialDocument
    /\ op = "constructor"
    /\ completion = "return"
    /\ threw = {}
    /\ docBefore = InitialDocument
    /\ runs = 0
    /\ pending = {}
    /\ sourceFiles = NoFiles
    /\ outputFile = NoFiles
    /\ fnArgs = NoFunction
    /\ fnResult = NoFunction
    /\ dataState = InitialDataState
    /\ loads = <<>>

\* loadData() up to its first fetch; fetches counts the calls of fetch
BeginLoad(caller) ==
    /\ Len(loads) < MaxLoads
    /\ dataState' = LoadingState(dataState)
    /\ loads' = Append(loads, [caller |-> caller, pc |-> "fetch", url |-> "primary",
                               retries |-> Retries,
                               fetches |-> [primary |-> 1, fallback |-> 0],
                               jsonData |-> Null])
    /\ UNCHANGED <<rawRecords, transformedData, op, completion, threw, docBefore, runs, pending,
                   fnArgs, fnResult, sourceFiles, outputFile>>

\* useEffect(() => { loadData(); }, [])
MountEffect ==
    /\ \A i \in 1..Len(loads) : loads[i].caller # "mount"
    /\ BeginLoad("mount")

\* contextValue.refreshData()
RefreshData == BeginLoad("refresh")

\* a variant that gives up the primary location after its first failure
FetchFails_leaves_primary_at_once(i) ==
    /\ i \in 1..Len(loads)
    /\ loads[i].pc = "fetch"
    /\ IF loads[i].url = "primary"
       THEN /\ loads' = [loads EXCEPT ![i].url = "fallback", ![i].retries = Retries,
                                      ![i].fetches.fallback = 1]
            /\ UNCHANGED dataState
       ELSE IF loads[i].retries > 0
       THEN /\ loads' = [loads EXCEPT ![i].pc = "delay"]
            /\ UNCHANGED dataState
       ELSE /\ loads' = [loads EXCEPT ![i].pc = "done"]
            /\ dataState' = FailedState(FetchError, FetchError)
    /\ UNCHANGED <<rawRecords, transformedData, op, completion, threw, docBefore, runs, pending,
                   fnArgs, fnResult, sourceFiles, outputFile>>

\* the attempt of load i fails: with retries left the load waits for its
\* timer; without, the primary location is followed by the fallback and the
\* fallback by the error state
FetchFails(i) ==
    /\ i \in 1..Len(loads)
    /\ loads[i].pc = "fetch"
    /\ IF loads[i].retries > 0
       THEN /\ loads' = [loads EXCEPT ![i].pc = "delay"]
            /\ UNCHANGED dataState
       ELSE IF loads[i].url = "primary"
       THEN /\ loads' = [loads EXCEPT ![i].url = "fallback", ![i].retries = Retries,
                                      ![i].fetches.fallback = 1]
            /\ UNCHANGED dataState
       ELSE /\ loads' = [loads EXCEPT ![i].pc = "done"]
            /\ dataState' = FailedState(FetchError, FetchError)
    /\ UNCHANGED <<rawRecords, transformedData, op, completion, threw, docBefore, runs, pending,
                   fnArgs, fnResult, sourceFiles, outputFile>>

\* setTimeout(resolve, delay) fires: fetchWithRetry(url, retries - 1, ...)
TimerFires(i) ==
    /\ i \in 1..Len(loads)
    /\ loads[i].pc = "delay"
    /\ loads' = [loads EXCEPT ![i].pc = "fetch",
                              ![i].retries = @ - 1,
                              ![i].fetches[loads[i].url] = @ + 1]
    /\ UNCHANGED <<dataState, rawRecords, transformedData, op, completion, threw, docBefore, runs,
                   pending, fnArgs, fnResult, sourceFiles, outputFile>>

\* the attempt of load i gives jsonData
FetchSucceeds(i, jsonData) ==
    /\ i \in 1..Len(loads)
    /\ loads[i].pc = "fetch"
    /\ loads' = [loads EXCEPT ![i].pc = "done", ![i].jsonData = jsonData]
    /\ dataState' = LoadedState(jsonData)
    /\ UNCHANGED <<rawRecords, transformedData, op, completion, threw, docBefore, runs, pending,
                   fnArgs, fnResult, sourceFiles, outputFile>>

\* the fetch of load i settles
FetchSettles(i) == FetchFails(i) \/ \E jsonData \in JsonValues : FetchSucceeds(i, jsonData)

NextLoader ==
    \/ MountEffect
    \/ RefreshData
    \/ \E i \in 1..MaxLoads : FetchFails(i)
    \/ \E i \in 1..MaxLoads : TimerFires(i)
    \/ \E i \in 1..MaxLoads, jsonData \in JsonValues : FetchSucceeds(i, jsonData)

SpecLoader == InitLoader /\ [][NextLoader]_vars

\* every fetch settles and every timer fires
SpecLoaderFair ==
    /\ SpecLoader
    /\ \A i \in 1..MaxLoads : WF_vars(FetchSettles(i)) /\ WF_vars(TimerFires(i))

\* load i has begun and has not ended
Running(i) == i <= Len(loads) /\ loads[i].pc # "done"

Ended(i) == i <= Len(loads) /\ loads[i].pc = "done"

C28_ExactlyOneOfDataAndError ==
    dataState.isLoading = FALSE =>
        /\ (dataState.data # Null) # (dataState.error # Null)
        /\ dataState.fileStatus["complete-data.json"].status = "success"
               <=> dataState.data # Null

-----------------------------------------------------------------------------
(* Stages whose durations are all equal *)

\* the records all have the same value of the field
AllEqual(records, field) ==
    \A i, j \in 1..Len(records) : records[i][field] = records[j][field]

-----------------------------------------------------------------------------
(* determineTrend over groups of records with different dates *)

MaxTrendRecords == 4

TrendDates ==
    {[k |-> "date", y |-> 2023, m |-> 1, d |-> 9],
     [k |-> "date", y |-> 2023, m |-> 6, d |-> 20],
     [k |-> "NA"]}

\* records of two error types, each with an early, a late or an unreadable date
TrendRecords == [errorType : {"Form A", "Form B"}, date : TrendDates]

InitTrend ==
    InitFunction([name : {"determineTrend", "analyzeFormErrors"},
                  records : Arrays(TrendRecords, MaxTrendRecords)])

CallDetermineTrend == Returns("determineTrend", determineTrend(fnArgs.records))

CallAnalyzeFormErrors == Returns("analyzeFormErrors", analyzeFormErrors(fnArgs.records))

NextTrend == CallDetermineTrend \/ CallAnalyzeFormErrors

SpecTrend == InitTrend /\ [][NextTrend]_vars

\* a group of count records that all have the same date
SameDateGroup(count) ==
    [i \in 1..count |-> [errorType |-> "Form A",
                         date |-> [k |-> "date", y |-> 2023, m |-> 1, d |-> 9]]]

====
